---- MODULE Spec2Model ----
(***************************************************************************)
(* Mesh analysis core of AnyMesh: the edge-adjacency index, the topology   *)
(* classifier and face-quality analysis of src/mesh_quality.py, and the    *)
(* sharp-edge segmentation of src/segmentation.py, run on bounded input    *)
(* meshes.  A mesh is a list of faces (triples of vertex ids); an analysis *)
(* is one atomic step from the loaded mesh to its result record.  The task *)
(* manager of src/task_manager.py, which runs the analyses in worker       *)
(* threads, is modelled with one step per access of a thread to the shared *)
(* queue and task objects.                                                 *)
(*                                                                         *)
(* Angles are in whole degrees.  A face normal is kept as the integer      *)
(* cross product of two edge vectors: it stands for the unit vector of the *)
(* same direction, and angles between normals are compared with the        *)
(* threshold through exact comparisons of cosines.                         *)
(***************************************************************************)
EXTENDS Integers, Sequences, FiniteSets, TLC

VARIABLES
  mesh,    \* the mesh file an analysis reads
  values,  \* the scalar array handed to a colour mapper
  result,  \* what the operation that ran returned
  tasks,          \* TaskManager.tasks: the Task objects, by task id
  task_queue,     \* TaskManager.task_queue: the ids waiting for a worker
  task_handlers,  \* TaskManager.task_handlers: the task types with a handler
  running,        \* TaskManager.running
  threads         \* the worker threads ever started, in order of creation

taskVars == <<tasks, task_queue, task_handlers, running, threads>>

vars == <<mesh, values, result, taskVars>>

\* TaskManager.__init__: nothing queued, nothing registered, no thread.
TaskManagerInit ==
  /\ tasks = <<>>
  /\ task_queue = <<>>
  /\ task_handlers = {}
  /\ running = FALSE
  /\ threads = <<>>

\* No analysis has run yet.
NoResult == [op |-> "none"]

\* Largest number of faces of an enumerated input mesh.
MaxFaces == 3

\* Vertex ids the enumerated input meshes draw their faces from.
EnumVertices == 0 .. 3

\* Vertex coordinates of the input geometry: vertex id v sits at Pos[v + 1].
\* Ids 0..7 are the corners of the unit cube (ids 0..3 span a tetrahedron);
\* ids 8..19 continue the rows y=0, y=1 (z=0) and z=1 (y=0) up to x=5; ids
\* 20..22 are the row y=2 (z=0) up to x=2.
Pos ==
  << <<0, 0, 0>>, <<1, 0, 0>>, <<0, 1, 0>>, <<0, 0, 1>>,
     <<1, 1, 0>>, <<1, 0, 1>>, <<0, 1, 1>>, <<1, 1, 1>>,
     <<2, 0, 0>>, <<3, 0, 0>>, <<4, 0, 0>>, <<5, 0, 0>>,
     <<2, 1, 0>>, <<3, 1, 0>>, <<4, 1, 0>>, <<5, 1, 0>>,
     <<2, 0, 1>>, <<3, 0, 1>>, <<4, 0, 1>>, <<5, 0, 1>>,
     <<0, 2, 0>>, <<1, 2, 0>>, <<2, 2, 0>> >>

Coord(v) == Pos[v + 1]

Min2(a, b) == IF a <= b THEN a ELSE b
Max2(a, b) == IF a <= b THEN b ELSE a

SetMin(S) == CHOOSE x \in S : \A y \in S : x <= y

Range(s) == {s[i] : i \in DOMAIN s}

RECURSIVE SeqSum(_)
SeqSum(s) == IF s = <<>> THEN 0 ELSE Head(s) + SeqSum(Tail(s))

\* The sum of f over the set S.
RECURSIVE SumOver(_, _)
SumOver(S, f) ==
  IF S = {} THEN 0
  ELSE LET x == CHOOSE y \in S : TRUE IN f[x] + SumOver(S \ {x}, f)

Sub(p, q) == <<p[1] - q[1], p[2] - q[2], p[3] - q[3]>>
Dot(u, v) == u[1] * v[1] + u[2] * v[2] + u[3] * v[3]
Cross(u, v) ==
  <<u[2] * v[3] - u[3] * v[2], u[3] * v[1] - u[1] * v[3], u[1] * v[2] - u[2] * v[1]>>

----------------------------------------------------------------------------
(* Edges of a face list *)

\* tuple(sorted([a, b]))
SortedEdge(a, b) == <<Min2(a, b), Max2(a, b)>>

\* The bug of building the third edge from (triangle[2], triangle[1]).
FaceEdges_wrongThird(f) ==
  <<SortedEdge(f[1], f[2]), SortedEdge(f[2], f[3]), SortedEdge(f[3], f[2])>>

\* The 3 edges of one triangle, in the order the code lists them.
FaceEdges(f) ==
  <<SortedEdge(f[1], f[2]), SortedEdge(f[2], f[3]), SortedEdge(f[3], f[1])>>

UsedVerts(faces) == UNION {{faces[i][1], faces[i][2], faces[i][3]} : i \in DOMAIN faces}

\* The elements of the set S of numbers, in ascending order.
Ascending(S) ==
  [i \in 1 .. Cardinality(S) |->
     CHOOSE x \in S : Cardinality({y \in S : y < x}) = i - 1]

\* The loop over the triangles and, inside it, over the 3 edges or corners
\* of each: step k (from 1) is at triangle TriangleAt(k) (from 0), position
\* PositionAt(k) (from 1).
TriangleAt(k) == (k - 1) \div 3
PositionAt(k) == ((k - 1) % 3) + 1

\* The steps of the loop over the first n triangles that meet the edge e.
EdgeSteps(triangles, e, n) ==
  {k \in 1 .. 3 * n : FaceEdges(triangles[TriangleAt(k) + 1])[PositionAt(k)] = e}

\* The bug of overwriting the list instead of appending to it.
EdgeTriangles_overwrite(triangles, e) ==
  LET steps == Ascending(EdgeSteps(triangles, e, Len(triangles)))
  IN  <<TriangleAt(steps[Len(steps)])>>

\* edge_dict[edge] after the loop: tri_idx is appended at every step that
\* meets the edge, the list being created on first use.
EdgeTriangles(triangles, e) ==
  LET steps == Ascending(EdgeSteps(triangles, e, Len(triangles)))
  IN  [i \in DOMAIN steps |-> TriangleAt(steps[i])]

\* The keys of the dictionary: the edges the loop meets.
EdgeKeys(triangles) ==
  {FaceEdges(triangles[n])[p] : n \in DOMAIN triangles, p \in 1 .. 3}

\* segment_by_sharp_edges: edge -> list of the indices of its triangles.
edge_dict(triangles) ==
  [e \in EdgeKeys(triangles) |-> EdgeTriangles(triangles, e)]

----------------------------------------------------------------------------
(* Input meshes *)

\* Faces over the ids V with the smallest id first (one list per rotation
\* class of an oriented triangle); a face may repeat a vertex id.
FaceUniverse(V) ==
  {f \in V \X V \X V : f[1] <= f[2] /\ f[1] <= f[3] /\ (f[3] = f[1] => f[2] = f[1])}

FaceKey(f) == f[1] * 64 + f[2] * 8 + f[3]

\* The lists of exactly n faces of U in ascending order.
RECURSIVE AscendingLists(_, _)
AscendingLists(U, n) ==
  IF n = 0 THEN {<<>>}
  ELSE UNION {{Append(s, f) :
                 f \in {g \in U : n = 1 \/ FaceKey(s[n - 1]) <= FaceKey(g)}} :
              s \in AscendingLists(U, n - 1)}

\* The enumerated face lists: at most MaxFaces faces, in ascending order.
EnumFaceLists ==
  UNION {AscendingLists(FaceUniverse(EnumVertices), n) : n \in 0 .. MaxFaces}

\* Squared length of the side a-b.
Side2(a, b) == Dot(Sub(Coord(a), Coord(b)), Sub(Coord(a), Coord(b)))

\* Minimum interior angle (degrees) of a triangle on the cube corners, as
\* trimesh reports it (face_angles): a triangle with a zero-length side has
\* all its angles set to 0; the sides of the others are 1, sqrt 2 or sqrt 3.
GeomMinAngle(f) ==
  LET x == Side2(f[1], f[2])
      y == Side2(f[2], f[3])
      z == Side2(f[3], f[1])
  IN  IF x = 0 \/ y = 0 \/ z = 0 THEN 0
      ELSE IF x + y + z = 4 THEN 45
      ELSE IF Min2(x, Min2(y, z)) = 1 THEN 35
      ELSE 60

GeomAngles(faces) == [i \in 1 .. Len(faces) |-> GeomMinAngle(faces[i])]

\* A readable mesh file: its vertex ids, its faces and, per face, the
\* minimum interior angle of its geometry.
Loaded(verts, faces, angles) ==
  [ok |-> TRUE, verts |-> verts, faces |-> faces, min_angles |-> angles]

OnCorners(faces) == Loaded(UsedVerts(faces), faces, GeomAngles(faces))

\* A file the mesh library cannot read.
Unreadable == [ok |-> FALSE, verts |-> {}, faces |-> <<>>, min_angles |-> <<>>]

Tetrahedron == <<<<0, 2, 1>>, <<0, 1, 3>>, <<0, 3, 2>>, <<1, 2, 3>>>>

\* The tetrahedron with its face 1-2-3 split at a new vertex.
Bipyramid ==
  <<<<0, 2, 1>>, <<0, 1, 3>>, <<0, 3, 2>>, <<1, 2, 7>>, <<2, 3, 7>>, <<3, 1, 7>>>>

\* The unit cube, 2 triangles per side, normals outward.
Cube ==
  <<<<0, 2, 4>>, <<0, 4, 1>>, <<3, 5, 7>>, <<3, 7, 6>>,
    <<0, 1, 5>>, <<0, 5, 3>>, <<2, 7, 4>>, <<2, 6, 7>>,
    <<0, 3, 6>>, <<0, 6, 2>>, <<1, 4, 7>>, <<1, 7, 5>>>>

\* Two tetrahedra glued along the edge 0-1 (that edge has 4 faces).
TwoTetraEdge ==
  Tetrahedron \o <<<<0, 1, 4>>, <<0, 5, 1>>, <<0, 4, 5>>, <<1, 5, 4>>>>

\* Two tetrahedra touching in the vertex 0 only.
TwoTetraVertex ==
  Tetrahedron \o <<<<0, 5, 4>>, <<0, 4, 6>>, <<0, 6, 5>>, <<4, 5, 6>>>>

\* Three triangles around the edge 0-1.
Fan3 == <<<<0, 1, 2>>, <<0, 1, 3>>, <<0, 1, 4>>>>

\* Two triangles of the plane z = 0 that share the edge 1-2, listed in
\* descending order.
Quad == <<<<1, 4, 2>>, <<0, 1, 2>>>>

\* Rows of vertex ids along x: y=0, y=1, y=2 (all z=0) and z=1 (y=0).
RowY0 == <<0, 1, 8, 9, 10, 11>>
RowY1 == <<2, 4, 12, 13, 14, 15>>
RowY2 == <<20, 21, 22>>
RowZ1 == <<3, 5, 16, 17, 18, 19>>

\* The band of unit squares between the rows a and b, 2 triangles each.
RECURSIVE Band(_, _, _)
Band(a, b, n) ==
  IF n = 0 THEN <<>>
  ELSE Band(a, b, n - 1)
         \o <<<<a[n], a[n + 1], b[n + 1]>>, <<a[n], b[n + 1], b[n]>>>>

\* A flat 2x2 grid of squares in the plane z=0: 9 vertices, 8 triangles.
Grid2x2 == Band(RowY0, RowY1, 2) \o Band(RowY1, RowY2, 2)

\* A flat strip of 5 squares in the plane z=0: 12 vertices, 10 triangles.
FlatStrip == Band(RowY0, RowY1, 5)

\* A floor (z=0, 10 triangles), a wall (y=0, 10 triangles) and an end wall
\* (x=0, 2 triangles).
Room == FlatStrip \o Band(RowY0, RowZ1, 5) \o <<<<0, 3, 6>>, <<0, 6, 2>>>>

\* Three small patches at right angles: a floor of 4 triangles, a wall of 6
\* and an end wall of 2.
Corner == Band(RowY0, RowY1, 2) \o Band(RowY0, RowZ1, 3) \o <<<<0, 3, 6>>, <<0, 6, 2>>>>

NamedFaceLists ==
  {Tetrahedron, Bipyramid, Cube, TwoTetraEdge, TwoTetraVertex, Fan3, Quad,
   Grid2x2, FlatStrip, Room, Corner}

\* A strip of triangles whose shapes vary from file to file: the minimum
\* angles are drawn freely around the degenerate threshold.
Strip == <<<<0, 1, 2>>, <<2, 1, 4>>, <<2, 4, 6>>, <<6, 4, 7>>, <<6, 7, 3>>>>

SliverAngles == {0, 1, 2}

SliverMeshes ==
  UNION {{Loaded(UsedVerts(SubSeq(Strip, 1, n)), SubSeq(Strip, 1, n), a) :
            a \in [1 .. n -> SliverAngles]} :
         n \in 1 .. Min2(MaxFaces, Len(Strip))}

\* Vertices without any face.
VerticesOnly == Loaded({0, 1, 2}, <<>>, <<>>)

InputMeshes ==
  {Unreadable, VerticesOnly}
    \cup {OnCorners(f) : f \in EnumFaceLists \cup NamedFaceLists}
    \cup SliverMeshes

----------------------------------------------------------------------------
(* compute_quality_stats *)

\* trimesh.load(force='mesh'): loading merges the vertices, which drops the
\* unreferenced ones; a mesh without faces is returned as it is.
TrimeshLoad(m) ==
  [vertices |-> IF m.faces = <<>> THEN m.verts ELSE UsedVerts(m.faces),
   faces |-> m.faces,
   face_angles |-> m.min_angles]

\* mesh.edges_sorted: the 3 edges of every face, one row each, each row
\* sorted.
edges_sorted(faces) ==
  [k \in 1 .. 3 * Len(faces) |-> FaceEdges(faces[((k - 1) \div 3) + 1])[((k - 1) % 3) + 1]]

\* Counter(edge_tuples)
edge_counts(faces) ==
  LET rows == edges_sorted(faces)
  IN  [e \in Range(rows) |-> Cardinality({k \in DOMAIN rows : rows[k] = e})]

\* The bug of taking every edge that is not shared by 2 faces for a boundary.
IsBoundaryCount_not2(c) == c # 2

\* Boundary edges: appear in exactly 1 face.
IsBoundaryCount(c) == c = 1

\* Non-manifold edges: appear in more than 2 faces.
IsNonManifoldCount(c) == c > 2

EndPoints(E) == UNION {{e[1], e[2]} : e \in E}

\* any(e in boundary_edge_set for e in face_edges)
IsBoundaryFace(f, boundary_edge_set) ==
  \E k \in 1 .. 3 : FaceEdges(f)[k] \in boundary_edge_set

\* One flat entry [x1,y1,z1, x2,y2,z2] per edge; the order over the edges is
\* the iteration order of a set, so the entries are kept as a set.
EdgePositions(E) == {Coord(e[1]) \o Coord(e[2]) : e \in E}

\* degenerate_threshold, degrees
degenerate_threshold == 1

\* The bug of a non-strict comparison.
IsDegenerate_le(a) == a <= degenerate_threshold

\* min_angles_deg < degenerate_threshold
IsDegenerate(a) == a < degenerate_threshold

\* Watertightness taken as the absence of boundary edges only.
IsWatertight_boundaryOnly(faces) ==
  LET counts == edge_counts(faces)
  IN  /\ faces # <<>>
      /\ \A e \in DOMAIN counts : counts[e] # 1

\* trimesh is_watertight: false for an empty mesh; otherwise every row of
\* edges_sorted belongs to a group of exactly 2 equal rows.
IsWatertight(faces) ==
  LET counts == edge_counts(faces)
  IN  /\ faces # <<>>
      /\ \A e \in DOMAIN counts : counts[e] = 2

\* mesh.edges: the directed rows (a,b), (b,c), (c,a) of every face.
DirectedEdge(faces, k) ==
  LET f == faces[((k - 1) \div 3) + 1]
      j == ((k - 1) % 3) + 1
  IN  <<f[j], f[(j % 3) + 1]>>

\* trimesh is_winding_consistent: in every group of exactly 2 equal sorted
\* rows, the second id of the first row is the first id of the second row.
IsWindingConsistent(faces) ==
  LET rows == edges_sorted(faces)
      counts == edge_counts(faces)
  IN  /\ faces # <<>>
      /\ \A k1, k2 \in DOMAIN rows :
           (k1 < k2 /\ rows[k1] = rows[k2] /\ counts[rows[k1]] = 2)
             => DirectedEdge(faces, k1)[2] = DirectedEdge(faces, k2)[1]

\* The bug of counting every edge row instead of the unique edges.
EulerNumber_allRows(vertices, faces) ==
  Cardinality(vertices) - 3 * Len(faces) + Len(faces)

\* trimesh euler_number: vertices - unique edges + faces.
EulerNumber(vertices, faces) ==
  Cardinality(vertices) - Cardinality(Range(edges_sorted(faces))) + Len(faces)

QualityStats(m) ==
  LET tm == TrimeshLoad(m)
      counts == edge_counts(tm.faces)
      boundary_edge_set == {e \in DOMAIN counts : IsBoundaryCount(counts[e])}
      non_manifold_edge_set == {e \in DOMAIN counts : IsNonManifoldCount(counts[e])}
      n == Len(tm.faces)
  IN  IF ~m.ok
      THEN \* trimesh.load raised: caught
           [op |-> "compute_quality_stats", outcome |-> "fail",
            success |-> FALSE, error |-> "Failed to load mesh"]
      ELSE IF n = 0
      THEN \* np.min of an empty array raises ValueError outside any try
           [op |-> "compute_quality_stats", outcome |-> "raise",
            error |-> "ValueError"]
      ELSE [op |-> "compute_quality_stats", outcome |-> "ok",
            success |-> TRUE,
            vertices_count |-> Cardinality(tm.vertices),
            faces_count |-> n,
            boundary_edges |-> Cardinality(boundary_edge_set),
            boundary_faces |->
              Cardinality({i \in 1 .. n : IsBoundaryFace(tm.faces[i], boundary_edge_set)}),
            boundary_vertices |-> Cardinality(EndPoints(boundary_edge_set)),
            non_manifold_edges |-> Cardinality(non_manifold_edge_set),
            non_manifold_vertices |-> Cardinality(EndPoints(non_manifold_edge_set)),
            degenerate_faces |->
              Cardinality({i \in 1 .. n : IsDegenerate(tm.face_angles[i])}),
            is_watertight |-> IsWatertight(tm.faces),
            is_winding_consistent |-> IsWindingConsistent(tm.faces),
            euler_number |-> EulerNumber(tm.vertices, tm.faces),
            avg_min_angle |-> <<SeqSum(tm.face_angles), n>>,
            worst_min_angle |-> SetMin(Range(tm.face_angles)),
            boundary_edge_positions |-> EdgePositions(boundary_edge_set),
            non_manifold_edge_positions |-> EdgePositions(non_manifold_edge_set)]

----------------------------------------------------------------------------
(* segment_by_sharp_edges *)

\* Open3D compute_triangle_normals: the normalised cross product of two edge
\* vectors; a zero cross product (no area) normalises to NaN and is replaced
\* by (0, 0, 1).
TriangleNormal(f) ==
  LET n == Cross(Sub(Coord(f[2]), Coord(f[1])), Sub(Coord(f[3]), Coord(f[1])))
  IN  IF n = <<0, 0, 0>> THEN <<0, 0, 1>> ELSE n

\* Thresholds (degrees) the segmentation is run with; 45 is the default.
AngleThresholds == {45, 90}

\* cos(t) as <<sign, num, den>>: cos(t) = sign * sqrt(num / den).
CosOf(t) ==
  CASE t = 0 -> <<1, 1, 1>>
    [] t = 45 -> <<1, 1, 2>>
    [] t = 90 -> <<0, 0, 1>>
    [] t = 135 -> <<-1, 1, 2>>
    [] t = 180 -> <<-1, 1, 1>>

\* cos(angle(n1, n2)) < cos(t), resp. =, over the integers:
\* cos(angle) = Dot(n1, n2) / sqrt(Dot(n1, n1) * Dot(n2, n2)).
CosLess(n1, n2, t) ==
  LET d == Dot(n1, n2)
      l == Dot(n1, n1) * Dot(n2, n2)
      c == CosOf(t)
  IN  IF c[1] >= 0
      THEN d < 0 \/ d * d * c[3] < c[2] * l
      ELSE d < 0 /\ d * d * c[3] > c[2] * l

CosEqual(n1, n2, t) ==
  LET d == Dot(n1, n2)
      l == Dot(n1, n1) * Dot(n2, n2)
      c == CosOf(t)
  IN  /\ d * d * c[3] = c[2] * l
      /\ (c[1] > 0 => d >= 0)
      /\ (c[1] < 0 => d <= 0)

\* The bug of a non-strict comparison with the threshold.
AngleExceeds_orEqual(n1, n2, t) == CosLess(n1, n2, t) \/ CosEqual(n1, n2, t)

\* angle = arccos(clip(dot(n1, n2), -1, 1)); angle > threshold_rad.
\* arccos decreases, so the angle exceeds t iff its cosine is below cos(t).
AngleExceeds(n1, n2, t) == CosLess(n1, n2, t)

\* The bug of marking the boundary edges only.
SharpEdges_boundaryOnly(triangles, ed, t) == {e \in DOMAIN ed : Len(ed[e]) = 1}

\* The sharp edges: every edge with 1 triangle in its list, and every edge
\* with 2 whose normals make an angle above the threshold.
SharpEdges(triangles, ed, t) ==
  {e \in DOMAIN ed :
     \/ Len(ed[e]) = 1
     \/ /\ Len(ed[e]) = 2
        /\ AngleExceeds(TriangleNormal(triangles[ed[e][1] + 1]),
                        TriangleNormal(triangles[ed[e][2] + 1]), t)}

\* The bug of linking the 2 triangles of a sharp edge too.
IsLink_ignoreSharp(e, ed, sharp_edges) == Len(ed[e]) = 2

\* if edge not in sharp_edges and len(tri_indices) == 2
IsLink(e, ed, sharp_edges) == e \notin sharp_edges /\ Len(ed[e]) = 2

\* The True entries of the sparse adjacency matrix.
Adjacency(ed, sharp_edges) ==
  UNION {{<<ed[e][1], ed[e][2]>>, <<ed[e][2], ed[e][1]>>} :
           e \in {x \in DOMAIN ed : IsLink(x, ed, sharp_edges)}}

RECURSIVE Closure(_, _)
Closure(adj, S) ==
  LET S2 == S \cup {p[2] : p \in {q \in adj : q[1] \in S}}
  IN  IF S2 = S THEN S ELSE Closure(adj, S2)

\* scipy connected_components(adjacency, directed=False): the components are
\* numbered in the order of their lowest node.
ConnectedComponents(adj, n) ==
  LET low == [i \in 0 .. n - 1 |-> SetMin(Closure(adj, {i}))]
      lows == {low[i] : i \in 0 .. n - 1}
  IN  [num |-> Cardinality(lows),
       labels |-> [i \in 0 .. n - 1 |-> Cardinality({x \in lows : x < low[i]})]]

Count(s, x) == Cardinality({k \in DOMAIN s : s[k] = x})

\* vertex_segment_votes[v]: one vote per occurrence of v in a triangle, in
\* the order of the triangles.
VotesUpTo(triangles, labels, v, n) ==
  LET steps == Ascending({k \in 1 .. 3 * n :
                            triangles[TriangleAt(k) + 1][PositionAt(k)] = v})
  IN  [i \in DOMAIN steps |-> labels[TriangleAt(steps[i])]]

\* set(votes) as CPython builds it for up to 4 different labels below 32: a
\* table of 8 slots, the label x goes to slot x % 8 and, when that slot is
\* taken, on to slot (5 * i + 1) % 8.  -1 marks a free slot.
RECURSIVE SetAdd(_, _, _)
SetAdd(table, x, i) ==
  IF table[i] = x THEN table
  ELSE IF table[i] = -1 THEN [table EXCEPT ![i] = x]
  ELSE SetAdd(table, x, (5 * i + 1) % 8)

RECURSIVE SetOf(_, _)
SetOf(votes, n) ==
  IF n = 0 THEN [i \in 0 .. 7 |-> -1]
  ELSE SetAdd(SetOf(votes, n - 1), votes[n], votes[n] % 8)

\* The bug of taking the first label of highest count in the list.
TieBreak_firstVote(votes, best) ==
  votes[SetMin({k \in DOMAIN votes : votes[k] \in best})]

\* The first of the labels of best in the iteration order of set(votes):
\* the order of the slots.  Labels that are all below 8 sit in their own
\* slots, and 5 labels or more sit in a table of 32 slots: both in
\* ascending order.
TieBreak(votes, best) ==
  IF (\A x \in Range(votes) : x < 8) \/ Cardinality(Range(votes)) >= 5
  THEN SetMin(best)
  ELSE LET table == SetOf(votes, Len(votes))
       IN  table[SetMin({i \in 0 .. 7 : table[i] \in best})]

\* max(set(votes), key=votes.count): the first label of highest count in the
\* iteration order of the set; -1 stands for a vertex without votes (it
\* keeps the colour 0).
MajorityVote(votes) ==
  IF votes = <<>> THEN -1
  ELSE TieBreak(votes, {x \in Range(votes) :
                          \A y \in Range(votes) : Count(votes, y) <= Count(votes, x)})

SharpEdgeSegmentation(m, t) ==
  LET triangles == m.faces
      n == Len(triangles)
      ed == edge_dict(triangles)
      sharp_edges == SharpEdges(triangles, ed, t)
      adjacency == Adjacency(ed, sharp_edges)
      cc == ConnectedComponents(adjacency, n)
  IN  IF ~m.ok \/ m.verts = {}
      THEN \* read_triangle_mesh gives an empty mesh: not mesh.has_vertices()
           [op |-> "segment_by_sharp_edges", outcome |-> "fail",
            success |-> FALSE, error |-> "Mesh vide"]
      ELSE [op |-> "segment_by_sharp_edges", outcome |-> "ok",
            success |-> TRUE,
            num_segments |-> cc.num,
            num_sharp_edges |-> Cardinality(sharp_edges),
            method |-> "sharp_edges",
            angle_threshold |-> t,
            edge_dict |-> ed,
            sharp_edges |-> sharp_edges,
            adjacency |-> adjacency,
            triangle_labels |-> cc.labels,
            vertex_labels |->
              [v \in m.verts |-> MajorityVote(VotesUpTo(triangles, cc.labels, v, n))]]

SegmentBySharpEdges(t) ==
  /\ result = NoResult
  /\ result' = SharpEdgeSegmentation(mesh, t)
  /\ UNCHANGED <<mesh, values, taskVars>>

ComputeQualityStats ==
  /\ result = NoResult
  /\ result' = QualityStats(mesh)
  /\ UNCHANGED <<mesh, values, taskVars>>

----------------------------------------------------------------------------
(* segment_by_planes *)

\* Values of num_planes the segmentation is run with.
NumPlanes == {1, 6}

\* The bug of always over-clustering into 10 groups.
initial_clusters_fixed(num_planes) == Max2(num_planes, 10)

\* initial_clusters = max(num_planes * 2, 10)
initial_clusters(num_planes) == Max2(num_planes * 2, 10)

\* A rational number is a pair <<numerator, denominator>>, denominator > 0.
RatLess(a, b) == a[1] * b[2] < b[1] * a[2]
RatMax(a, b) == IF RatLess(a, b) THEN b ELSE a

IntSqrt(x) == CHOOSE r \in 0 .. x : r * r = x

\* mesh.triangle_normals: the unit normal.  The input meshes that get past
\* the clustering have axis-parallel normals, so the unit normal has integer
\* coordinates.
UnitNormal(f) ==
  LET n == TriangleNormal(f)
      len == IntSqrt(Dot(n, n))
  IN  <<n[1] \div len, n[2] \div len, n[3] \div len>>

\* Cluster ids a labelling of the clustering is drawn from.
ClusterIds(k) == {0, 1, 2, k - 1}

\* KMeans(n_clusters=k).fit_predict(triangle_normals): raises ValueError
\* with fewer samples than clusters; otherwise every triangle gets the id of
\* the nearest centre, so equal normals get equal ids.  Which normals are
\* grouped, and under which ids, is the outcome of the library's iteration:
\* any grouping is taken as possible.
KMeansFitPredict(triangles, k) ==
  IF Len(triangles) < k
  THEN {[raised |-> TRUE]}
  ELSE LET normals == [i \in 1 .. Len(triangles) |-> UnitNormal(triangles[i])]
       IN  {[raised |-> FALSE,
             labels |-> [i \in 0 .. Len(triangles) - 1 |-> g[normals[i + 1]]]] :
              g \in [Range(normals) -> ClusterIds(k)]}

\* np.var(cluster_normals, axis=0).sum() over the members (a set of 0-based
\* triangle indices): per axis mean(x^2) - mean(x)^2.
NormalVariance(normals, members) ==
  LET m == Cardinality(members)
      col(k) == [i \in 1 .. Len(normals) |-> IF i - 1 \in members THEN normals[i][k] ELSE 0]
      sq(k) == [i \in 1 .. Len(normals) |-> col(k)[i] * col(k)[i]]
      axis(k) == m * SeqSum(sq(k)) - SeqSum(col(k)) * SeqSum(col(k))
  IN  <<axis(1) + axis(2) + axis(3), m * m>>

\* The bug of scoring the small clusters too.
IsScored_anySize(cluster_size) == cluster_size >= 1

\* if cluster_size < 10: continue
IsScored(cluster_size) == cluster_size >= 10

\* cluster_scores after the loop over range(initial_clusters), as a set.
ClusterScores(normals, labels, k) ==
  LET members(c) == {i \in DOMAIN labels : labels[i] = c}
  IN  {[id |-> c, variance |-> NormalVariance(normals, members(c)),
        size |-> Cardinality(members(c))] :
         c \in {x \in 0 .. k - 1 : IsScored(Cardinality(members(x)))}}

\* cluster_scores.sort(key=lambda x: x[1]): ascending variance; the sort is
\* stable, so clusters of equal variance stay in the order of their ids.
RECURSIVE SortByVariance(_)
SortByVariance(S) ==
  IF S = {} THEN <<>>
  ELSE LET first == CHOOSE x \in S : \A y \in S \ {x} :
                      \/ RatLess(x.variance, y.variance)
                      \/ ~RatLess(y.variance, x.variance) /\ x.id < y.id
       IN  <<first>> \o SortByVariance(S \ {first})

\* np.median of an ascending list.
Median(vs) ==
  LET n == Len(vs)
      lo == vs[(n + 1) \div 2]
      hi == vs[(n \div 2) + 1]
  IN  IF n % 2 = 1 THEN lo
      ELSE <<lo[1] * hi[2] + hi[1] * lo[2], 2 * lo[2] * hi[2]>>

\* adaptive_threshold = max(0.005, np.median(variances) / 2)
AdaptiveThreshold(variances) ==
  LET med == Median(variances)
  IN  RatMax(<<1, 200>>, <<med[1], 2 * med[2]>>)

\* plane_clusters: the ids of the scored clusters under the threshold, in
\* the order of the sorted scores.
PlaneClusters(scores) ==
  IF scores = <<>> THEN <<>>
  ELSE LET threshold == AdaptiveThreshold([i \in DOMAIN scores |-> scores[i].variance])
           under == SelectSeq(scores, LAMBDA x : RatLess(x.variance, threshold))
       IN  [i \in DOMAIN under |-> under[i].id]

\* The position of x in the sequence s, 0 when it is not there.
IndexIn(s, x) == IF \E i \in DOMAIN s : s[i] = x THEN CHOOSE i \in DOMAIN s : s[i] = x ELSE 0

\* triangle_labels[cluster_mask] = new_id, new_id from 1; the rest stay 0.
NewLabel(kept, old) == IndexIn(kept, old)


\* One entry of planes_info: the direction of the mean normal of the segment
\* (the sum of its normals), the centroid of the corners of its triangles as
\* <<sum of the coordinates, number of corners>>, and its size.
PlaneInfo(triangles, normals, members) ==
  LET vsum(k, vecs) == SeqSum([i \in DOMAIN vecs |-> vecs[i][k]])
      ns == [i \in DOMAIN normals |->
               IF i - 1 \in members THEN normals[i] ELSE <<0, 0, 0>>]
      cs == [i \in DOMAIN triangles |->
               IF i - 1 \in members
               THEN LET f == triangles[i]
                        c(k) == Coord(f[1])[k] + Coord(f[2])[k] + Coord(f[3])[k]
                    IN  <<c(1), c(2), c(3)>>
               ELSE <<0, 0, 0>>]
  IN  [normal |-> <<vsum(1, ns), vsum(2, ns), vsum(3, ns)>>,
       centroid |-> <<<<vsum(1, cs), vsum(2, cs), vsum(3, cs)>>, 3 * Cardinality(members)>>,
       num_triangles |-> Cardinality(members)]

\* The body of segment_by_planes after the clustering returned km.
PlanesSegmentation(m, num_planes, km) ==
  LET triangles == m.faces
      n == Len(triangles)
      k == initial_clusters(num_planes)
      normals == [i \in 1 .. n |-> UnitNormal(triangles[i])]
      scores == SortByVariance(ClusterScores(normals, km.labels, k))
      plane_clusters == PlaneClusters(scores)
      kept == SubSeq(plane_clusters, 1, Min2(num_planes, Len(plane_clusters)))
      fallback == plane_clusters = <<>>
      triangle_labels ==
        IF fallback THEN km.labels
        ELSE [i \in 0 .. n - 1 |-> NewLabel(kept, km.labels[i])]
      num == IF fallback THEN k ELSE Len(kept) + 1
      members(s) == {i \in 0 .. n - 1 : triangle_labels[i] = s}
      used == SelectSeq([i \in 1 .. num |-> i - 1], LAMBDA x : members(x) # {})
  IN  IF ~m.ok \/ m.verts = {}
      THEN \* read_triangle_mesh gives an empty mesh: not mesh.has_vertices()
           [op |-> "segment_by_planes", outcome |-> "fail",
            success |-> FALSE, error |-> "Mesh vide"]
      ELSE IF km.raised
      THEN \* the ValueError of the clustering, caught by the except clause
           [op |-> "segment_by_planes", outcome |-> "fail",
            success |-> FALSE, error |-> "ValueError"]
      ELSE [op |-> "segment_by_planes", outcome |-> "ok",
            success |-> TRUE,
            num_segments |-> num,
            plane_sizes |-> [x \in 0 .. num - 1 |-> Cardinality(members(x))],
            planes |-> [j \in DOMAIN used |-> PlaneInfo(triangles, normals, members(used[j]))],
            method |-> "planes",
            num_planes |-> num_planes,
            labels_initial |-> km.labels,
            cluster_scores |-> scores,
            plane_clusters |-> plane_clusters,
            triangle_labels |-> triangle_labels,
            vertex_labels |->
              [v \in m.verts |-> MajorityVote(VotesUpTo(triangles, triangle_labels, v, n))]]

SegmentByPlanes(num_planes) ==
  /\ result = NoResult
  /\ \E km \in KMeansFitPredict(mesh.faces, initial_clusters(num_planes)) :
       result' = PlanesSegmentation(mesh, num_planes, km)
  /\ UNCHANGED <<mesh, values, taskVars>>

----------------------------------------------------------------------------
(* build_triangle_adjacency (simplify.py) *)

\* edge_to_triangles after the first loop.
edge_to_triangles(triangles) ==
  [e \in EdgeKeys(triangles) |-> EdgeTriangles(triangles, e)]

\* tri_neighbors: per triangle, the set of the triangles it shares with an
\* edge whose list has exactly 2 entries.
tri_neighbors(triangles) ==
  LET e2t == edge_to_triangles(triangles)
      two == {e \in DOMAIN e2t : Len(e2t[e]) = 2}
  IN  [i \in 0 .. Len(triangles) - 1 |->
         {e2t[e][2] : e \in {x \in two : e2t[x][1] = i}}
           \cup {e2t[e][1] : e \in {x \in two : e2t[x][2] = i}}]

BuildTriangleAdjacency ==
  /\ result = NoResult
  /\ mesh.ok
  /\ result' = [op |-> "build_triangle_adjacency",
                edge_to_triangles |-> edge_to_triangles(mesh.faces),
                tri_neighbors |-> tri_neighbors(mesh.faces)]
  /\ UNCHANGED <<mesh, values, taskVars>>

----------------------------------------------------------------------------
(* compute_triangle_curvature (simplify.py) *)

\* The dot product of the unit normals of the directions u and v, as the
\* pair <<r, s>> that stands for (r + s * sqrt 3) / 3.  The normals of the
\* input faces have the squared length 1 or 3.
UnitDot(u, v) ==
  LET d == Dot(u, v)
      l == Dot(u, u) * Dot(v, v)
  IN  CASE l = 1 -> <<3 * d, 0>>
        [] l = 3 -> <<0, d>>
        [] l = 9 -> <<d, 0>>

\* dots = np.dot(neighbor_normals, normal), summed.
DotSum(triangles, i, neighbors) ==
  LET dots == [j \in neighbors |->
                 UnitDot(TriangleNormal(triangles[j + 1]), TriangleNormal(triangles[i + 1]))]
  IN  <<SumOver(neighbors, [j \in neighbors |-> dots[j][1]]),
        SumOver(neighbors, [j \in neighbors |-> dots[j][2]])>>

\* The bug of subtracting the sum of the dot products, not their mean.
Deviation_noMean(triangles, i, neighbors) ==
  LET sum == DotSum(triangles, i, neighbors)
  IN  IF neighbors = {} THEN <<0, 0, 1>> ELSE <<3 - sum[1], 0 - sum[2], 3>>

\* deviations[tri_idx] = 1.0 - np.mean(dots), and 0 without neighbours; the
\* triple <<a, b, c>> stands for (a + b * sqrt 3) / c.
Deviation(triangles, i, neighbors) ==
  LET m == Cardinality(neighbors)
      sum == DotSum(triangles, i, neighbors)
  IN  IF neighbors = {} THEN <<0, 0, 1>>
      ELSE <<3 * m - sum[1], 0 - sum[2], 3 * m>>

ComputeTriangleCurvature ==
  /\ result = NoResult
  /\ mesh.ok
  /\ result' =
       LET nb == tri_neighbors(mesh.faces)
       IN  [op |-> "compute_triangle_curvature",
            deviations |->
              [i \in 0 .. Len(mesh.faces) - 1 |-> Deviation(mesh.faces, i, nb[i])]]
  /\ UNCHANGED <<mesh, values, taskVars>>

Init ==
  /\ mesh \in InputMeshes
  /\ values = <<>>
  /\ result = NoResult
  /\ TaskManagerInit

Next ==
  \/ ComputeQualityStats
  \/ \E t \in AngleThresholds : SegmentBySharpEdges(t)
  \/ BuildTriangleAdjacency
  \/ ComputeTriangleCurvature

Spec == Init /\ [][Next]_vars

\* The segmentations, on the meshes large enough for the clustering to run
\* and on the small named ones.
PlanesInputMeshes ==
  {Unreadable, VerticesOnly} \cup {OnCorners(f) : f \in NamedFaceLists}

InitPlanes ==
  /\ mesh \in PlanesInputMeshes
  /\ values = <<>>
  /\ result = NoResult
  /\ TaskManagerInit

NextPlanes ==
  \/ \E p \in NumPlanes : SegmentByPlanes(p)
  \/ \E t \in AngleThresholds : SegmentBySharpEdges(t)

SpecPlanes == InitPlanes /\ [][NextPlanes]_vars

----------------------------------------------------------------------------
(* The heatmap colour mappers: _distance_to_color (compare.py) and
   _heatmap_colors (mesh_quality.py).  A scalar is a rational <<n, q>>,
   q > 0; the arithmetic is that of the real numbers. *)

\* The bug of not clamping.
Clip_none(d) == d

\* np.clip(d, 0.0, 1.0)
Clip(d) == IF d[1] < 0 THEN <<0, 1>> ELSE IF d[1] > d[2] THEN <<1, 1>> ELSE d

\* The bug of not subtracting the start of the sub-range.
Fraction_noOffset(d, k) == <<4 * d[1], d[2]>>

\* f = (d - k * 0.25) / 0.25
Fraction(d, k) == <<4 * d[1] - k * d[2], d[2]>>

\* 1.0 - f
OneMinus(f) == <<f[2] - f[1], f[2]>>

\* (x * 255).astype(np.uint8): the fractional part is cut off.
ToByte(x) == (x[1] * 255) \div x[2]

\* The colour of one entry of _distance_to_color.
DistanceColor(x) ==
  LET d == Clip(x)
      zero == <<0, 1>>
      one == <<1, 1>>
      rgb == IF 4 * d[1] < d[2]
             THEN <<zero, Fraction(d, 0), one>>
             ELSE IF 4 * d[1] < 2 * d[2]
             THEN <<zero, one, OneMinus(Fraction(d, 1))>>
             ELSE IF 4 * d[1] < 3 * d[2]
             THEN <<Fraction(d, 2), one, zero>>
             ELSE <<one, OneMinus(Fraction(d, 3)), zero>>
  IN  <<ToByte(rgb[1]), ToByte(rgb[2]), ToByte(rgb[3]), 255>>

distance_to_color(distances) == [i \in DOMAIN distances |-> DistanceColor(distances[i])]

\* The colour of one entry of _heatmap_colors.
HeatmapColor(x) ==
  LET d == Clip(x)
      zero == <<0, 1>>
      one == <<1, 1>>
      rgb == IF 4 * d[1] < d[2]
             THEN <<zero, Fraction(d, 0), one>>
             ELSE IF 4 * d[1] < 2 * d[2]
             THEN <<zero, one, OneMinus(Fraction(d, 1))>>
             ELSE IF 4 * d[1] < 3 * d[2]
             THEN <<Fraction(d, 2), one, zero>>
             ELSE <<one, OneMinus(Fraction(d, 3)), zero>>
  IN  <<ToByte(rgb[1]), ToByte(rgb[2]), ToByte(rgb[3]), 255>>

heatmap_colors(vals) == [i \in DOMAIN vals |-> HeatmapColor(vals[i])]

DistanceToColor ==
  /\ result = NoResult
  /\ result' = [op |-> "_distance_to_color", colors |-> distance_to_color(values)]
  /\ UNCHANGED <<mesh, values, taskVars>>

HeatmapColors ==
  /\ result = NoResult
  /\ result' = [op |-> "_heatmap_colors", colors |-> heatmap_colors(values)]
  /\ UNCHANGED <<mesh, values, taskVars>>

\* Scalars in steps of 1/2040 (an eighth of a byte step of the ramp), from
\* below 0 to above 1.
FineScalars == {<<k, 2040>> : k \in -120 .. 2160}

\* Scalars in steps of 1/40, and those just below the stops of the ramp.
CoarseScalars ==
  {<<51 * k, 2040>> : k \in -2 .. 42}
    \cup {<<509, 2040>>, <<1019, 2040>>, <<1529, 2040>>, <<2039, 2040>>}

\* The arrays handed to the mappers: empty, of 1 entry, of 2 entries.
ValueArrays ==
  {<<>>} \cup {<<x>> : x \in FineScalars}
         \cup {<<x, y>> : x \in CoarseScalars, y \in CoarseScalars}

InitColor ==
  /\ mesh = Unreadable
  /\ values \in ValueArrays
  /\ result = NoResult
  /\ TaskManagerInit

NextColor == DistanceToColor \/ HeatmapColors

SpecColor == InitColor /\ [][NextColor]_vars

----------------------------------------------------------------------------
(* generate_quality_visualization (mesh_quality.py) *)

DiagnosticTypes == {"face_quality", "boundary"}

\* vertex_quality: 60 degrees by default, lowered by np.minimum.at to the
\* smallest minimum angle of the faces at the vertex.
VertexQuality(tm) ==
  [v \in tm.vertices |->
     SetMin({60} \cup {tm.face_angles[i] :
                         i \in {k \in DOMAIN tm.faces :
                                  v \in {tm.faces[k][1], tm.faces[k][2], tm.faces[k][3]}}})]

\* quality_normalized = 1 - (q - q_min) / (q_max - q_min), or zeros.
QualityNormalized(q) ==
  LET q_min == SetMin({q[v] : v \in DOMAIN q})
      q_max == 0 - SetMin({0 - q[v] : v \in DOMAIN q})
  IN  [v \in DOMAIN q |->
         IF q_max > q_min THEN <<q_max - q[v], q_max - q_min>> ELSE <<0, 1>>]

\* _highlight_face_quality: one colour per vertex.
highlight_face_quality(tm) ==
  LET qn == QualityNormalized(VertexQuality(tm))
  IN  [v \in tm.vertices |-> HeatmapColor(qn[v])]

QualityVisualization(m, diagnostic_type) ==
  LET tm == TrimeshLoad(m)
  IN  IF ~m.ok
      THEN [op |-> "generate_quality_visualization", outcome |-> "fail",
            success |-> FALSE, error |-> "Failed to load mesh"]
      ELSE IF diagnostic_type # "face_quality"
      THEN [op |-> "generate_quality_visualization", outcome |-> "fail",
            success |-> FALSE, error |-> "Only face_quality uses GLB visualization"]
      ELSE IF tm.vertices = {}
      THEN \* vertex_quality.min() of an empty array
           [op |-> "generate_quality_visualization", outcome |-> "raise",
            error |-> "ValueError"]
      ELSE [op |-> "generate_quality_visualization", outcome |-> "ok",
            success |-> TRUE,
            diagnostic_type |-> diagnostic_type,
            total_vertices |-> Cardinality(tm.vertices),
            colored_mesh |-> [vertices |-> tm.vertices, faces |-> tm.faces,
                              vertex_colors |-> highlight_face_quality(tm)]]

GenerateQualityVisualization(diagnostic_type) ==
  /\ result = NoResult
  /\ result' = QualityVisualization(mesh, diagnostic_type)
  /\ UNCHANGED <<mesh, values, taskVars>>

----------------------------------------------------------------------------
(* compare_meshes (compare.py) *)

\* The bug of leaving the degenerate faces in.
IsKept_all(angle) == TRUE

\* remove_degenerate_faces keeps the faces with an area: no zero angle.
IsKept(angle) == angle > 0

\* The entries of s at the indices of the kept angles, in order.
RECURSIVE NonDegenerate(_, _)
NonDegenerate(s, angles) ==
  IF s = <<>> THEN <<>>
  ELSE (IF IsKept(Head(angles)) THEN <<Head(s)>> ELSE <<>>)
         \o NonDegenerate(Tail(s), Tail(angles))

\* mesh.remove_degenerate_faces(): the faces go, the vertices stay.
RemoveDegenerateFaces(tm) ==
  [vertices |-> tm.vertices,
   faces |-> NonDegenerate(tm.faces, tm.face_angles),
   face_angles |-> NonDegenerate(tm.face_angles, tm.face_angles)]

\* The square of np.linalg.norm(mesh.bounding_box.extents); the bounds are
\* those of the referenced vertices.
BoundsDiagonal2(tm) ==
  LET pts == {Coord(v) : v \in UsedVerts(tm.faces)}
      ext(k) == (0 - SetMin({0 - pt[k] : pt \in pts})) - SetMin({pt[k] : pt \in pts})
  IN  ext(1) * ext(1) + ext(2) * ext(2) + ext(3) * ext(3)

\* The values of the function f in ascending order.
RECURSIVE SortedValues(_)
SortedValues(f) ==
  IF DOMAIN f = {} THEN <<>>
  ELSE LET x == CHOOSE y \in DOMAIN f : \A z \in DOMAIN f : f[y] <= f[z]
       IN  <<f[x]>> \o SortedValues([y \in (DOMAIN f) \ {x} |-> f[y]])

\* The bug of capping at the largest distance.
Percentile95_max(distances) ==
  <<20 * SortedValues(distances)[Cardinality(DOMAIN distances)], 20>>

\* np.percentile(distances, 95), linear interpolation, as <<p * 20, 20>>.
Percentile95(distances) ==
  LET srt == SortedValues(distances)
      n == Len(srt)
      pos20 == 19 * (n - 1)
      lo == pos20 \div 20
      hi == IF lo + 1 < n THEN lo + 1 ELSE lo
  IN  <<20 * srt[lo + 1] + (pos20 - 20 * lo) * (srt[hi + 1] - srt[lo + 1]), 20>>

\* np.clip(distances / cap, 0.0, 1.0) for one distance.  The cap is p95, or
\* 0.01 * bb_diagonal when p95 is not above 1e-10: then a distance of a whole
\* unit or more is beyond the cap of a mesh of a few units.
DistanceForColor(d, p95, diagonal2) ==
  IF p95[1] > 0 THEN Clip(<<d * p95[2], p95[1]>>)
  ELSE CASE d = 0 -> <<0, 1>>
         [] d > 0 /\ 10000 * d * d >= diagonal2 -> <<1, 1>>

\* The distances the nearest-neighbour query returns, in whole units: they
\* depend on the sampled points.
DistanceFields(V) ==
  {[v \in V |-> 0], [v \in V |-> 2], [v \in V |-> v % 4],
   [v \in V |-> IF \A w \in V : w <= v THEN 3 ELSE 0]}

\* The reference meshes of the comparisons.
RefMeshes ==
  {Unreadable, OnCorners(Tetrahedron), OnCorners(Grid2x2), OnCorners(<<<<0, 0, 1>>>>)}

Comparison(ref, comp, distances) ==
  LET mesh_ref == RemoveDegenerateFaces(TrimeshLoad(ref))
      mesh_comp == RemoveDegenerateFaces(TrimeshLoad(comp))
      d2 == BoundsDiagonal2(mesh_ref)
      bb_diagonal2 == IF d2 = 0 THEN 1 ELSE d2
      srt == SortedValues(distances)
      n == Len(srt)
      p95 == Percentile95(distances)
  IN  IF ~ref.ok \/ ~comp.ok
      THEN [op |-> "compare_meshes", outcome |-> "fail",
            success |-> FALSE, error |-> "Failed to load meshes"]
      ELSE IF mesh_ref.faces = <<>>
      THEN \* mesh_ref.sample() of a mesh without faces
           [op |-> "compare_meshes", outcome |-> "raise", error |-> "IndexError"]
      ELSE IF mesh_comp.vertices = {}
      THEN \* distances.min() of an empty array
           [op |-> "compare_meshes", outcome |-> "raise", error |-> "ValueError"]
      ELSE [op |-> "compare_meshes", outcome |-> "ok",
            success |-> TRUE,
            vertices_count |-> Cardinality(mesh_comp.vertices),
            faces_count |-> Len(mesh_comp.faces),
            distances |-> distances,
            stats |-> [hausdorff |-> srt[n],
                       mean |-> <<SeqSum(srt), n>>,
                       rms2 |-> <<SeqSum([i \in 1 .. n |-> srt[i] * srt[i]]), n>>,
                       p95 |-> p95,
                       bb_diagonal2 |-> bb_diagonal2],
            cap_is_p95 |-> p95[1] > 0,
            ref_vertices |-> Cardinality(mesh_ref.vertices),
            ref_faces |-> Len(mesh_ref.faces),
            comp_vertices |-> Cardinality(mesh_comp.vertices),
            comp_faces |-> Len(mesh_comp.faces),
            heatmap_mesh |->
              [vertices |-> mesh_comp.vertices, faces |-> mesh_comp.faces,
               vertex_colors |->
                 [v \in mesh_comp.vertices |->
                    DistanceColor(DistanceForColor(distances[v], p95, bb_diagonal2))]]]

CompareMeshes ==
  /\ result = NoResult
  /\ \E ref \in RefMeshes : \E distances \in DistanceFields(TrimeshLoad(mesh).vertices) :
       result' = Comparison(ref, mesh, distances)
  /\ UNCHANGED <<mesh, values, taskVars>>

\* The meshes of the visualisations: the named ones, the slivers and the
\* single faces.
VisInputMeshes ==
  {Unreadable, VerticesOnly}
    \cup {OnCorners(f) : f \in NamedFaceLists \cup AscendingLists(FaceUniverse(EnumVertices), 1)}
    \cup SliverMeshes

InitVis ==
  /\ mesh \in VisInputMeshes
  /\ values = <<>>
  /\ result = NoResult
  /\ TaskManagerInit

NextVis ==
  \/ \E t \in DiagnosticTypes : GenerateQualityVisualization(t)
  \/ CompareMeshes

SpecVis == InitVis /\ [][NextVis]_vars

----------------------------------------------------------------------------
(* TaskManager (task_manager.py) *)

\* The task types create_task is called with.
TaskTypes == {"simplify", "export"}

\* The task types register_handler is called with: "export" has no handler.
HandlerTypes == {"simplify"}

\* task_manager = TaskManager(num_workers=2)
NumWorkers == 2

\* Largest number of tasks created.
MaxTasks == 3

\* Largest number of threads started: start() after stop() starts new ones.
MaxThreads == 4

\* Python's None in a field of a task or of a thread.
None == [none |-> TRUE]

\* What a handler returns: the result record of its analysis.
HandlerResults ==
  {[success |-> TRUE], [success |-> FALSE, error |-> "Mesh vide"]}

\* str(e) of the exceptions a handler raises.
HandlerErrors == {[message |-> "handler failed"]}

\* str(e) of the ValueError raised for a type without a handler.
NoHandlerError(task_type) ==
  [message |-> "Aucun handler pour le type de tache", task_type |-> task_type]

\* The params of a request that names no file.
NoFiles == [input_file |-> <<>>, output_file |-> <<>>]

\* Task.__init__
NewTask(task_type, params) ==
  [type |-> task_type, params |-> params, status |-> "pending", progress |-> 0,
   result |-> None, error |-> None,
   started_at |-> FALSE, completed_at |-> FALSE]

\* A thread as start() creates it: at the head of the loop of _worker.
NewThread == [pc |-> "loop", task_id |-> 0, ret |-> None]

\* The bug of an exception that leaves _worker.
Caught_not(th, e) == [th EXCEPT !.pc = "stopped", !.ret = e]

\* The thread th after "except Exception as e" caught e and wrote the
\* status: it goes on to record the error.
Caught(th, e) == [th EXCEPT !.pc = "failed", !.ret = e]

register_handler(task_type) ==
  /\ task_handlers' = task_handlers \cup {task_type}
  /\ UNCHANGED <<mesh, values, result, tasks, task_queue, running, threads>>

\* create_task: the id is new (uuid4), here the next index.
create_task(task_type, params) ==
  /\ Len(tasks) < MaxTasks
  /\ tasks' = Append(tasks, NewTask(task_type, params))
  /\ task_queue' = Append(task_queue, Len(tasks) + 1)
  /\ UNCHANGED <<mesh, values, result, task_handlers, running, threads>>

\* start(): returns at once when running.
start ==
  /\ Len(threads) + NumWorkers <= MaxThreads
  /\ IF running
     THEN UNCHANGED <<running, threads>>
     ELSE \* The stop() before has returned: its join(timeout=5) outlasts
          \* the timeout of queue.get, so only a thread that is inside a
          \* task is still alive.
          /\ \A w \in DOMAIN threads : threads[w].pc \notin {"loop", "get"}
          /\ running' = TRUE
          /\ threads' = threads \o [i \in 1 .. NumWorkers |-> NewThread]
  /\ UNCHANGED <<mesh, values, result, tasks, task_queue, task_handlers>>

\* stop(): clears the flag; join(timeout=5) only waits.
stop ==
  /\ running' = FALSE
  /\ UNCHANGED <<mesh, values, result, tasks, task_queue, task_handlers, threads>>

\* "while self.running": enter queue.get, or leave the loop.
WorkerLoop(w) ==
  /\ w \in DOMAIN threads
  /\ threads[w].pc = "loop"
  /\ threads' = [threads EXCEPT ![w].pc = IF running THEN "get" ELSE "stopped"]
  /\ UNCHANGED <<mesh, values, result, tasks, task_queue, task_handlers, running>>

\* The bug of reading the head of the queue without taking it.
WorkerTake_peek(w) ==
  /\ w \in DOMAIN threads
  /\ threads[w].pc = "get"
  /\ task_queue # <<>>
  /\ UNCHANGED task_queue
  /\ LET task_id == Head(task_queue)
     IN  IF task_id \notin DOMAIN tasks
         THEN /\ threads' = [threads EXCEPT ![w].pc = "loop"]
              /\ UNCHANGED tasks
         ELSE /\ tasks' = [tasks EXCEPT ![task_id].status = "processing",
                                        ![task_id].started_at = TRUE,
                                        ![task_id].progress = 0]
              /\ threads' = [threads EXCEPT ![w].pc = "processing",
                                            ![w].task_id = task_id]
  /\ UNCHANGED <<mesh, values, result, task_handlers, running>>

\* queue.get(timeout=1) returns the oldest id; the task is marked as
\* processing.  An id without a task is skipped.
WorkerTake(w) ==
  /\ w \in DOMAIN threads
  /\ threads[w].pc = "get"
  /\ task_queue # <<>>
  /\ task_queue' = Tail(task_queue)
  /\ LET task_id == Head(task_queue)
     IN  IF task_id \notin DOMAIN tasks
         THEN /\ threads' = [threads EXCEPT ![w].pc = "loop"]
              /\ UNCHANGED tasks
         ELSE /\ tasks' = [tasks EXCEPT ![task_id].status = "processing",
                                        ![task_id].started_at = TRUE,
                                        ![task_id].progress = 0]
              /\ threads' = [threads EXCEPT ![w].pc = "processing",
                                            ![w].task_id = task_id]
  /\ UNCHANGED <<mesh, values, result, task_handlers, running>>

\* queue.Empty after the timeout: continue.
WorkerTimeout(w) ==
  /\ w \in DOMAIN threads
  /\ threads[w].pc = "get"
  /\ task_queue = <<>>
  /\ threads' = [threads EXCEPT ![w].pc = "loop"]
  /\ UNCHANGED <<mesh, values, result, tasks, task_queue, task_handlers, running>>

\* task_handlers.get(task.type): the handler is called, or the ValueError
\* of the missing handler is caught and the status written.
WorkerLookup(w) ==
  /\ w \in DOMAIN threads
  /\ threads[w].pc = "processing"
  /\ LET task_id == threads[w].task_id
     IN  IF tasks[task_id].type \in task_handlers
         THEN /\ threads' = [threads EXCEPT ![w].pc = "handler"]
              /\ UNCHANGED tasks
         ELSE /\ threads' = [threads EXCEPT
                               ![w] = Caught(@, NoHandlerError(tasks[task_id].type))]
              /\ tasks' = [tasks EXCEPT ![task_id].status = "failed"]
  /\ UNCHANGED <<mesh, values, result, task_queue, task_handlers, running>>

\* handler(task) returns r: task.status = COMPLETED.
HandlerReturns(w) ==
  /\ w \in DOMAIN threads
  /\ threads[w].pc = "handler"
  /\ \E r \in HandlerResults :
       threads' = [threads EXCEPT ![w].pc = "completed", ![w].ret = r]
  /\ tasks' = [tasks EXCEPT ![threads[w].task_id].status = "completed"]
  /\ UNCHANGED <<mesh, values, result, task_queue, task_handlers, running>>

\* handler(task) raises e: task.status = FAILED.
HandlerRaises(w) ==
  /\ w \in DOMAIN threads
  /\ threads[w].pc = "handler"
  /\ \E e \in HandlerErrors :
       threads' = [threads EXCEPT ![w] = Caught(@, e)]
  /\ tasks' = [tasks EXCEPT ![threads[w].task_id].status = "failed"]
  /\ UNCHANGED <<mesh, values, result, task_queue, task_handlers, running>>

\* The rest of the try block: result, progress, completed_at; task_done().
WorkerComplete(w) ==
  /\ w \in DOMAIN threads
  /\ threads[w].pc = "completed"
  /\ tasks' = [tasks EXCEPT ![threads[w].task_id].result = threads[w].ret,
                            ![threads[w].task_id].progress = 100,
                            ![threads[w].task_id].completed_at = TRUE]
  /\ threads' = [threads EXCEPT ![w] = NewThread]
  /\ UNCHANGED <<mesh, values, result, task_queue, task_handlers, running>>

\* The rest of the except block: error, completed_at; task_done().
WorkerFail(w) ==
  /\ w \in DOMAIN threads
  /\ threads[w].pc = "failed"
  /\ tasks' = [tasks EXCEPT ![threads[w].task_id].error = threads[w].ret,
                            ![threads[w].task_id].completed_at = TRUE]
  /\ threads' = [threads EXCEPT ![w] = NewThread]
  /\ UNCHANGED <<mesh, values, result, task_queue, task_handlers, running>>

\* One step of the thread w of _worker.
Worker(w) ==
  \/ WorkerLoop(w)
  \/ WorkerTake(w)
  \/ WorkerTimeout(w)
  \/ WorkerLookup(w)
  \/ HandlerReturns(w)
  \/ HandlerRaises(w)
  \/ WorkerComplete(w)
  \/ WorkerFail(w)

InitTasks ==
  /\ mesh = Unreadable
  /\ values = <<>>
  /\ result = NoResult
  /\ TaskManagerInit

\* The calls and steps while the workers are left running.
NextRunning ==
  \/ \E t \in HandlerTypes : register_handler(t)
  \/ \E t \in TaskTypes : create_task(t, NoFiles)
  \/ start
  \/ \E w \in 1 .. MaxThreads : Worker(w)

NextTasks == NextRunning \/ stop

SpecTasks == InitTasks /\ [][NextTasks]_vars

\* The manager once started and never stopped.  The threads are scheduled,
\* queue.get returns when an id is queued, and a handler that was called
\* returns or raises.
SpecTasksLive ==
  /\ InitTasks
  /\ [][NextRunning]_vars
  /\ \A w \in 1 .. MaxThreads : WF_vars(Worker(w))

----------------------------------------------------------------------------
(* simplify_mesh, simplify_mesh_trimesh, simplify_mesh_glb (simplify.py) *)

\* An argument that is not given (Python's None default).
NotGiven == <<>>

\* The values of target_triangles in the calls, as <<n>>.
TargetTriangles == {NotGiven, <<-1>>, <<0>>, <<2>>, <<4>>, <<6>>, <<30>>}

\* The values of reduction_ratio in the calls, as <<numerator, denominator>>
\* of floats that are exact.
ReductionRatios ==
  {NotGiven, <<0, 1>>, <<1, 4>>, <<1, 2>>, <<3, 4>>, <<1, 1>>, <<3, 2>>, <<-1, 2>>}

\* int(x) of the float x = n / d: the fraction is cut off towards zero.
IntOf(n, d) == IF n >= 0 THEN n \div d ELSE 0 - ((0 - n) \div d)

\* The bug of checking nothing before the file is read.
FileMissing_never(exists) == FALSE

\* not input_path.exists()
FileMissing(exists) == ~exists

\* target_triangles is None and reduction_ratio is None
ParamsMissing(target_triangles, reduction_ratio) ==
  target_triangles = NotGiven /\ reduction_ratio = NotGiven

\* max(4, min(target_triangles, original_triangles))
ClampTarget(target, original_triangles) ==
  Max2(4, Min2(target, original_triangles))

\* int(original_triangles * (1 - reduction_ratio)), unless target_triangles
\* is given; then int(target_triangles).
TargetOf(target_triangles, reduction_ratio, original_triangles) ==
  IF target_triangles = NotGiven
  THEN IntOf(original_triangles * (reduction_ratio[2] - reduction_ratio[1]),
             reduction_ratio[2])
  ELSE target_triangles[1]

\* o3d.io.read_triangle_mesh: a file it cannot read gives an empty mesh.
O3dRead(m) ==
  IF m.ok THEN [vertices |-> m.verts, faces |-> m.faces]
  ELSE [vertices |-> {}, faces |-> <<>>]

\* The call with its arguments, as every result below carries it.
SimplifyCall(op, backend, exists, target_triangles, reduction_ratio) ==
  [op |-> op, backend |-> backend, exists |-> exists,
   target_triangles |-> target_triangles, reduction_ratio |-> reduction_ratio]

\* A structured failure: decimated lists the calls of the decimator, nothing
\* is written.
SimplifyFailure(call, error, decimated) ==
  [op |-> call.op, call |-> call, outcome |-> "fail", success |-> FALSE,
   error |-> error, decimated |-> decimated, written |-> FALSE]

\* The part the three functions share: from the loaded mesh to the result.
\* decimator_ok says whether simplify_quadric_decimation and the export
\* return; an exception of theirs is caught by the except of the function.
Decimate(call, loaded, decimator_ok) ==
  LET original_triangles == Len(loaded.faces)
      target == ClampTarget(TargetOf(call.target_triangles, call.reduction_ratio,
                                     original_triangles),
                            original_triangles)
      decimated == <<[target |-> target, original_triangles |-> original_triangles]>>
  IN  IF ~decimator_ok
      THEN SimplifyFailure(call, "Erreur lors de la simplification", decimated)
      ELSE [op |-> call.op, call |-> call, outcome |-> "ok", success |-> TRUE,
            original_vertices |-> Cardinality(loaded.vertices),
            original_triangles |-> original_triangles,
            decimated |-> decimated, written |-> TRUE]

\* simplify_mesh_trimesh, and simplify_mesh with the Open3D back end.
Simplification(call, m, decimator_ok) ==
  LET loaded == IF call.backend = "trimesh" THEN TrimeshLoad(m)
                ELSE O3dRead(IF call.exists THEN m ELSE Unreadable)
  IN  IF FileMissing(call.exists)
      THEN SimplifyFailure(call, "Le fichier d'entree n'existe pas", <<>>)
      ELSE IF ParamsMissing(call.target_triangles, call.reduction_ratio)
      THEN SimplifyFailure(call, "Vous devez specifier target_triangles ou reduction_ratio", <<>>)
      ELSE IF call.backend = "trimesh" /\ ~(call.exists /\ m.ok)
      THEN \* trimesh.load raises
           SimplifyFailure(call, "Erreur lors de la simplification", <<>>)
      ELSE IF loaded.vertices = {}
      THEN SimplifyFailure(call, "Le maillage ne contient pas de vertices valides", <<>>)
      ELSE Decimate(call, loaded, decimator_ok)

\* simplify_mesh_glb
GlbSimplification(call, m, decimator_ok) ==
  LET loaded == TrimeshLoad(m)
  IN  IF FileMissing(call.exists)
      THEN SimplifyFailure(call, "Le fichier d'entree n'existe pas", <<>>)
      ELSE IF ParamsMissing(call.target_triangles, call.reduction_ratio)
      THEN SimplifyFailure(call, "Vous devez specifier target_triangles ou reduction_ratio", <<>>)
      ELSE IF ~(call.exists /\ m.ok)
      THEN SimplifyFailure(call, "Erreur simplification GLB", <<>>)
      ELSE IF loaded.vertices = {}
      THEN SimplifyFailure(call, "Pas de vertices valides", <<>>)
      ELSE IF loaded.faces = <<>>
      THEN SimplifyFailure(call, "Pas de faces valides", <<>>)
      ELSE Decimate(call, loaded, decimator_ok)

\* simplify_mesh(..., use_trimesh): the file at input_path holds the mesh
\* when it exists.
SimplifyMesh(use_trimesh) ==
  /\ result = NoResult
  /\ \E exists \in BOOLEAN, t \in TargetTriangles, r \in ReductionRatios,
        decimator_ok \in BOOLEAN :
       result' = Simplification(
                   SimplifyCall("simplify_mesh",
                                IF use_trimesh THEN "trimesh" ELSE "open3d",
                                exists, t, r),
                   mesh, decimator_ok)
  /\ UNCHANGED <<mesh, values, taskVars>>

SimplifyMeshGlb ==
  /\ result = NoResult
  /\ \E exists \in BOOLEAN, t \in TargetTriangles, r \in ReductionRatios,
        decimator_ok \in BOOLEAN :
       result' = GlbSimplification(
                   SimplifyCall("simplify_mesh_glb", "trimesh", exists, t, r),
                   mesh, decimator_ok)
  /\ UNCHANGED <<mesh, values, taskVars>>

NextSimplify ==
  \/ \E use_trimesh \in BOOLEAN : SimplifyMesh(use_trimesh)
  \/ SimplifyMeshGlb

SpecSimplify == InitVis /\ [][NextSimplify]_vars

-----------------------------------------------------------------------------
(* sanitize_filename (main.py) *)

\* Longest file name handed to sanitize_filename.
MaxNameLen == 4

\* The characters of a file name: a lower-case letter, an upper-case letter,
\* and the characters the function treats specially or not at all.
NameChars == {"a", "G", ".", "/", "\\", "-", "_", "$"}

Filenames == UNION {[1 .. n -> NameChars] : n \in 0 .. MaxNameLen}

\* str.rfind, from 1; 0 when c is absent.
LastIndexOf(s, c) ==
  LET at == {i \in DOMAIN s : s[i] = c}
  IN  IF at = {} THEN 0 ELSE CHOOSE i \in at : \A j \in at : j <= i

\* os.path.basename on POSIX: what follows the last slash.
Basename(s) == SubSeq(s, LastIndexOf(s, "/") + 1, Len(s))

\* str.replace("..", ""): the occurrences are taken from the left, without
\* overlap.
RECURSIVE RemoveDotDot(_)
RemoveDotDot(s) ==
  IF Len(s) < 2 THEN s
  ELSE IF s[1] = "." /\ s[2] = "." THEN RemoveDotDot(SubSeq(s, 3, Len(s)))
  ELSE <<s[1]>> \o RemoveDotDot(Tail(s))

\* Path(s).name for s without a slash: "." and "" are the current directory,
\* which has no name.
PathName(s) == IF s = <<".">> THEN <<>> ELSE s

\* Path.suffix: from the last dot, unless it is the first or the last
\* character of the name.
Suffix(name) ==
  LET i == LastIndexOf(name, ".")
  IN  IF 1 < i /\ i < Len(name) THEN SubSeq(name, i, Len(name)) ELSE <<>>

\* Path.stem: the name without its suffix.
Stem(name) == SubSeq(name, 1, Len(name) - Len(Suffix(name)))

\* str.lower.
Lower(s) == [i \in DOMAIN s |-> IF s[i] = "G" THEN "g" ELSE s[i]]

\* The characters \w matches.
WordChars == {"a", "G", "g", "_"}

\* re.sub(r'[^\w\-]', '_', stem).
CleanStem(stem) ==
  [i \in DOMAIN stem |->
     IF stem[i] \in WordChars \cup {"-"} THEN stem[i] ELSE "_"]

sanitize_filename(filename) ==
  IF filename = <<>>
  THEN [outcome |-> "ValueError", message |-> "Nom de fichier vide"]
  ELSE LET name == PathName(RemoveDotDot(Basename(filename)))
           clean_filename == CleanStem(Stem(name)) \o Lower(Suffix(name))
       IN  IF clean_filename \in {<<>>, <<".">>, <<".", ".">>}
           THEN [outcome |-> "ValueError",
                 message |-> "Nom de fichier invalide apres nettoyage"]
           ELSE [outcome |-> "ok", value |-> clean_filename]

\* One call of sanitize_filename, as the upload of a file makes it.
SanitizeFilename ==
  /\ result = NoResult
  /\ \E filename \in Filenames :
       result' = [op |-> "sanitize_filename", filename |-> filename,
                  returned |-> sanitize_filename(filename)]
  /\ UNCHANGED <<mesh, values, taskVars>>

NextSanitize == SanitizeFilename

SpecSanitize == InitTasks /\ [][NextSanitize]_vars

----------------------------------------------------------------------------
(* POST /simplify (main.py) *)

\* The mesh files on disk, as <<directory, stem, suffix>>.
StoredFiles ==
  {<<"data/input", "a", ".glb">>, <<"data/input", "b", ".glb">>,
   <<"data/generated_meshes", "a", ".glb">>}

\* The filenames of the requests, as <<stem, suffix>>.
RequestFilenames == {<<"a", ".glb">>, <<"b", ".glb">>}

\* source_dir / request.filename
InputPath(filename, is_generated) ==
  <<IF is_generated THEN "data/generated_meshes" ELSE "data/input",
    filename[1], filename[2]>>

\* DATA_OUTPUT / f"{input_path.stem}_simplified.glb"
OutputPath(input_path) == <<"data/output", input_path[2], "_simplified.glb">>

\* simplify_mesh_async: 404 for a file that is not there, else the task is
\* created with the paths of its input and its output.
simplify_mesh_async(filename, is_generated) ==
  LET input_path == InputPath(filename, is_generated)
  IN  /\ input_path \in StoredFiles
      /\ create_task("simplify", [input_file |-> input_path,
                                  output_file |-> OutputPath(input_path)])

\* The server: the handlers are registered and the workers started at
\* startup, the requests come in while the workers run.
NextJobs ==
  \/ \E t \in HandlerTypes : register_handler(t)
  \/ start
  \/ \E f \in RequestFilenames : \E g \in BOOLEAN : simplify_mesh_async(f, g)
  \/ \E w \in 1 .. MaxThreads : Worker(w)

SpecJobs == InitTasks /\ [][NextJobs]_vars

----------------------------------------------------------------------------
(* Properties *)

\* The three sides of a triangle, as pairs of positions in the face.
SidePairs == {<<1, 2>>, <<2, 3>>, <<3, 1>>}

\* Side p of face f is the undirected edge e.
IsSide(f, p, e) == {f[p[1]], f[p[2]]} = {e[1], e[2]}

\* Every undirected edge of the face list, smaller id first.
MeshEdges(faces) ==
  UNION {{IF faces[i][p[1]] <= faces[i][p[2]]
          THEN <<faces[i][p[1]], faces[i][p[2]]>>
          ELSE <<faces[i][p[2]], faces[i][p[1]]>> : p \in SidePairs} :
         i \in DOMAIN faces}

\* The references of edge e: one per side of a face that is e.
Refs(faces, e) == {r \in (DOMAIN faces) \X SidePairs : IsSide(faces[r[1]], r[2], e)}

RefCount(faces, e) == Cardinality(Refs(faces, e))

\* The faces (0-based) with a side that is e.
FacesOf(faces, e) == {r[1] - 1 : r \in Refs(faces, e)}

VertexSet(f) == {f[1], f[2], f[3]}

RECURSIVE Reachable(_, _)
Reachable(rel, S) ==
  LET T == S \cup {y \in UNION {{r[1], r[2]} : r \in rel} : \E x \in S : <<x, y>> \in rel}
  IN  IF T = S THEN S ELSE Reachable(rel, T)

\* The link of vertex v is one closed cycle: every neighbour of v lies on
\* exactly 2 of the faces around v, and the faces around v hang together.
LinkIsCycle(faces, v) ==
  LET star == {i \in DOMAIN faces : v \in VertexSet(faces[i])}
      nbrs == UNION {VertexSet(faces[i]) : i \in star} \ {v}
      link == {l \in nbrs \X nbrs :
                 l[1] # l[2] /\ \E i \in star : {l[1], l[2]} \subseteq VertexSet(faces[i])}
  IN  /\ \A u \in nbrs : Cardinality({i \in star : u \in VertexSet(faces[i])}) = 2
      /\ Reachable(link, {CHOOSE u \in nbrs : TRUE}) = nbrs

\* A closed 2-manifold: proper triangles, and around every vertex the faces
\* form one closed fan.
IsClosedManifold(faces) ==
  /\ faces # <<>>
  /\ \A i \in DOMAIN faces : Cardinality(VertexSet(faces[i])) = 3
  /\ \A v \in UsedVerts(faces) : LinkIsCycle(faces, v)

IsQuality == result.op = "compute_quality_stats"
IsQualityOk == IsQuality /\ result.outcome = "ok"
IsSharp == result.op = "segment_by_sharp_edges"
IsSharpOk == IsSharp /\ result.outcome = "ok"
IsAdjacency == result.op = "build_triangle_adjacency"

\* The adjacency index an analysis built, when it built one.
HasIndex == IsSharpOk \/ IsAdjacency
Index == IF IsAdjacency THEN result.edge_to_triangles ELSE result.edge_dict

\* C1: on a closed 2-manifold mesh the adjacency index maps every edge of
\* the mesh to exactly 2 (different) triangles, and compute_quality_stats
\* reports 0 boundary edges and 0 non-manifold edges.
InvC1 ==
  ((HasIndex \/ IsQuality) /\ IsClosedManifold(mesh.faces)) =>
    /\ HasIndex =>
         /\ DOMAIN Index = MeshEdges(mesh.faces)
         /\ \A e \in DOMAIN Index : Len(Index[e]) = 2 /\ Index[e][1] # Index[e][2]
    /\ IsQuality =>
         /\ result.outcome = "ok"
         /\ result.boundary_edges = 0
         /\ result.non_manifold_edges = 0

WitC1 ==
  /\ IsClosedManifold(mesh.faces)
  /\ Len(mesh.faces) >= 4
  /\ IsQualityOk
  /\ result.boundary_edges = 0

\* The number of list entries of the index that name triangle t.
EntriesOf(idx, t) ==
  Cardinality({x \in UNION {{<<e, k>> : k \in DOMAIN idx[e]} : e \in DOMAIN idx} :
                 idx[x[1]][x[2]] = t})

\* C2 as claimed: the index lists, for every edge, exactly the triangles
\* that contain it, each triangle once, also for triangles that repeat a
\* vertex id; every triangle has 3 entries.
CexC2 ==
  HasIndex =>
    /\ DOMAIN Index = MeshEdges(mesh.faces)
    /\ \A e \in DOMAIN Index :
         /\ Range(Index[e]) = FacesOf(mesh.faces, e)
         /\ \A k1, k2 \in DOMAIN Index[e] : k1 # k2 => Index[e][k1] # Index[e][k2]
    /\ \A t \in 0 .. Len(mesh.faces) - 1 : EntriesOf(Index, t) = 3

\* C2, amended: the index has exactly the edges of the mesh; the list of an
\* edge names each triangle once per side of it that is that edge (once for
\* a triangle of 3 different ids, twice for the doubled side of a triangle
\* that repeats an id), in ascending order; every triangle has 3 entries.
InvC2 ==
  HasIndex =>
    /\ DOMAIN Index = MeshEdges(mesh.faces)
    /\ \A e \in DOMAIN Index :
         /\ \A t \in 0 .. Len(mesh.faces) - 1 :
              Count(Index[e], t) =
                Cardinality({p \in SidePairs : IsSide(mesh.faces[t + 1], p, e)})
         /\ \A k \in 1 .. Len(Index[e]) - 1 : Index[e][k] <= Index[e][k + 1]
    /\ \A t \in 0 .. Len(mesh.faces) - 1 : EntriesOf(Index, t) = 3

HasRepeatedId(f) == Cardinality(VertexSet(f)) < 3

WitC2 ==
  /\ IsSharpOk
  /\ Len(mesh.faces) >= 2
  /\ \E i \in DOMAIN mesh.faces : HasRepeatedId(mesh.faces[i])
  /\ \E e \in DOMAIN result.edge_dict :
       \E k \in 1 .. Len(result.edge_dict[e]) - 1 :
         result.edge_dict[e][k] = result.edge_dict[e][k + 1]

\* C3: an edge is a boundary edge iff it has exactly 1 reference and a
\* non-manifold edge iff it has more than 2; the vertex counts are the
\* numbers of different end points of those edges; the boundary faces are
\* the faces with at least one boundary edge among their sides.
BoundarySet == {e \in MeshEdges(mesh.faces) : RefCount(mesh.faces, e) = 1}
NonManifoldSet == {e \in MeshEdges(mesh.faces) : RefCount(mesh.faces, e) > 2}

CexC4 ==
  (IsQuality /\ mesh.ok /\ mesh.faces = <<>>) =>
    /\ result.outcome = "ok"
    /\ result.success
    /\ result.boundary_edges = 0
    /\ result.boundary_faces = 0
    /\ result.boundary_vertices = 0
    /\ result.non_manifold_edges = 0
    /\ result.non_manifold_vertices = 0
    /\ result.boundary_edge_positions = {}
    /\ result.non_manifold_edge_positions = {}

\* C5 as claimed: on an input with an empty vertex or face array an
\* analyzer returns the structured failure and lets no exception escape.
CexC5 ==
  ((IsQuality \/ IsSharp) /\ mesh.ok /\ (mesh.verts = {} \/ mesh.faces = <<>>)) =>
    /\ result.outcome = "fail"
    /\ ~result.success

\* C6: the degenerate faces are exactly the faces whose minimum interior
\* angle is strictly below the threshold of 1 degree, and the boundary faces
\* are no more than all faces.
InvC6 ==
  IsQualityOk =>
    /\ result.degenerate_faces =
         Cardinality({i \in DOMAIN mesh.faces : mesh.min_angles[i] < 1})
    /\ result.boundary_faces <= result.faces_count
    /\ result.faces_count = Len(mesh.faces)

WitC6 ==
  /\ IsQualityOk
  /\ \E i \in DOMAIN mesh.faces : mesh.min_angles[i] = 1
  /\ \E i \in DOMAIN mesh.faces : mesh.min_angles[i] = 0
  /\ result.degenerate_faces = 1
  /\ result.boundary_faces > 0

\* C7 as claimed: is_watertight is true exactly when there is no boundary
\* edge, also on meshes with non-manifold edges (stated here for the meshes
\* of proper triangles already).
CexC7 ==
  (IsQualityOk /\ \A i \in DOMAIN mesh.faces : ~HasRepeatedId(mesh.faces[i])) =>
    (result.is_watertight <=> result.boundary_edges = 0)

\* C7, amended: is_watertight is true exactly when there is neither a
\* boundary edge nor a non-manifold edge.
InvC7 ==
  IsQualityOk =>
    (result.is_watertight <=>
       (result.boundary_edges = 0 /\ result.non_manifold_edges = 0))

WitC7 ==
  /\ IsQualityOk
  /\ result.boundary_edges = 0
  /\ result.non_manifold_edges > 0
  /\ ~result.is_watertight
  /\ \A i \in DOMAIN mesh.faces : ~HasRepeatedId(mesh.faces[i])

\* The faces as a bag of vertex sets.
FaceBag(faces) ==
  [x \in {VertexSet(faces[i]) : i \in DOMAIN faces} |->
     Cardinality({i \in DOMAIN faces : VertexSet(faces[i]) = x})]

\* Two triangles glued along all three sides: the smallest sphere.
IsDoubleTriangle(bag) ==
  \E x \in DOMAIN bag : DOMAIN bag = {x} /\ bag[x] = 2 /\ Cardinality(x) = 3

\* Vertex v sits in the middle of the triangle nb, which it splits in 3.
IsSplitVertex(bag, v, nb) ==
  /\ Cardinality(nb) = 3
  /\ {x \in DOMAIN bag : v \in x} = {{v} \cup (nb \ {u}) : u \in nb}
  /\ \A u \in nb : bag[{v} \cup (nb \ {u})] = 1

\* The bag with the 3 faces around v merged back into the triangle nb.
Unsplit(bag, v, nb) ==
  [x \in {y \in DOMAIN bag : v \notin y} \cup {nb} |->
     IF x = nb THEN (IF nb \in DOMAIN bag THEN bag[nb] ELSE 0) + 1 ELSE bag[x]]

\* A sphere by construction: a double triangle, refined by splitting faces
\* at a new inner vertex any number of times.
RECURSIVE IsStellarSphere(_)
IsStellarSphere(bag) ==
  \/ IsDoubleTriangle(bag)
  \/ \E v \in UNION DOMAIN bag :
       LET nb == UNION {x \in DOMAIN bag : v \in x} \ {v}
       IN  IsSplitVertex(bag, v, nb) /\ IsStellarSphere(Unsplit(bag, v, nb))

\* The closed genus-0 meshes of the inputs: the split spheres and the cube.
IsGenus0Closed(faces) ==
  /\ IsClosedManifold(faces)
  /\ IsStellarSphere(FaceBag(faces)) \/ faces = Cube

\* C8: for a closed genus-0 mesh the reported euler_number is 2.
InvC8 ==
  (IsQuality /\ IsGenus0Closed(mesh.faces)) =>
    /\ result.outcome = "ok"
    /\ result.euler_number = 2

WitC8 ==
  /\ IsQualityOk
  /\ IsGenus0Closed(mesh.faces)
  /\ Len(mesh.faces) >= 6
  /\ result.euler_number = 2

\* The normals of the 2 references of an edge of degree 2.
RefNormals(faces, e) ==
  LET r1 == CHOOSE r \in Refs(faces, e) : TRUE
      r2 == CHOOSE r \in Refs(faces, e) \ {r1} : TRUE
  IN  <<TriangleNormal(faces[r1[1]]), TriangleNormal(faces[r2[1]])>>

\* The angle between n1 and n2 is at most t degrees: cos(angle) >= cos(t).
AngleAtMost(n1, n2, t) ==
  LET d == Dot(n1, n2)
      l == Dot(n1, n1) * Dot(n2, n2)
      c == CosOf(t)
  IN  IF c[1] >= 0
      THEN d >= 0 /\ d * d * c[3] >= c[2] * l
      ELSE d >= 0 \/ d * d * c[3] <= c[2] * l

SharingPairs(faces, E) == UNION {FacesOf(faces, e) \X FacesOf(faces, e) : e \in E}

\* The segments are the connected components of the graph.
SegmentsAreComponents ==
  LET n == Len(mesh.faces)
  IN  /\ \A i \in 0 .. n - 1 :
           LET comp == Reachable(result.adjacency, {i})
           IN  \A j \in 0 .. n - 1 :
                 result.triangle_labels[i] = result.triangle_labels[j] <=> j \in comp
      /\ {result.triangle_labels[i] : i \in 0 .. n - 1} = 0 .. result.num_segments - 1

\* C10 as claimed: two different faces are adjacent iff they share an edge
\* that is not sharp, also on meshes with edges of degree above 2; the
\* segments are the connected components (stated here for the meshes of
\* proper triangles already).
CexC10 ==
  (IsSharpOk /\ \A i \in DOMAIN mesh.faces : ~HasRepeatedId(mesh.faces[i])) =>
    /\ LET smooth == MeshEdges(mesh.faces) \ result.sharp_edges
           sharing == SharingPairs(mesh.faces, smooth)
       IN  \A i, j \in 0 .. Len(mesh.faces) - 1 :
             i # j => (<<i, j>> \in result.adjacency <=> <<i, j>> \in sharing)
    /\ SegmentsAreComponents

\* C10, amended: two different faces are adjacent iff they share an edge of
\* degree exactly 2 that is not sharp; the segments are the connected
\* components of that graph.
InvC10 ==
  IsSharpOk =>
    /\ LET smooth2 == {e \in MeshEdges(mesh.faces) \ result.sharp_edges :
                         RefCount(mesh.faces, e) = 2}
           sharing == SharingPairs(mesh.faces, smooth2)
       IN  \A i, j \in 0 .. Len(mesh.faces) - 1 :
             i # j => (<<i, j>> \in result.adjacency <=> <<i, j>> \in sharing)
    /\ SegmentsAreComponents

WitC10 ==
  /\ IsSharpOk
  /\ \E e \in MeshEdges(mesh.faces) : RefCount(mesh.faces, e) > 2
  /\ \E i, j \in 0 .. Len(mesh.faces) - 1 : i # j /\ <<i, j>> \in result.adjacency
  /\ result.num_segments >= 2
  /\ \A i \in DOMAIN mesh.faces : ~HasRepeatedId(mesh.faces[i])

\* Faces f and g lie on the same side of the unit cube: all their vertices
\* agree in one coordinate.
OnSameCubeSide(f, g) ==
  \E k \in 1 .. 3 : \E c \in {0, 1} :
    \A v \in VertexSet(f) \cup VertexSet(g) : Coord(v)[k] = c

IsCubeAt45 == IsSharpOk /\ mesh.faces = Cube /\ result.angle_threshold = 45

\* C11: sharp-edge segmentation of the unit cube (8 vertices, 12 triangles)
\* with the threshold 45 gives exactly 6 segments, and two triangles have the
\* same label iff they are the two triangles of one side of the cube.
InvC11 ==
  IsCubeAt45 =>
    /\ Cardinality(mesh.verts) = 8 /\ Len(mesh.faces) = 12
    /\ result.num_segments = 6
    /\ \A i, j \in 1 .. 12 :
         result.triangle_labels[i - 1] = result.triangle_labels[j - 1]
           <=> OnSameCubeSide(mesh.faces[i], mesh.faces[j])
    /\ \A l \in 0 .. 5 :
         Cardinality({i \in 0 .. 11 : result.triangle_labels[i] = l}) = 2

WitC11 ==
  /\ IsCubeAt45
  /\ result.num_segments = 6
  /\ result.num_sharp_edges = 12

IsPlanes == result.op = "segment_by_planes"
IsPlanesOk == IsPlanes /\ result.outcome = "ok"

\* All faces have the same unit normal.
IsFlat(faces) ==
  \A i, j \in DOMAIN faces :
    /\ Cross(TriangleNormal(faces[i]), TriangleNormal(faces[j])) = <<0, 0, 0>>
    /\ Dot(TriangleNormal(faces[i]), TriangleNormal(faces[j])) > 0

LabelsUsed == {result.triangle_labels[i] : i \in DOMAIN result.triangle_labels}

\* C12 as claimed: after a successful sharp-edge or planar segmentation
\* every face has one label and the labels in use are exactly
\* 0 .. num_segments-1, label 0 of the planar case included (the planar case
\* is stated here for the flat meshes already).
CexC12 ==
  (IsSharpOk \/ (IsPlanesOk /\ IsFlat(mesh.faces))) =>
    /\ DOMAIN result.triangle_labels = 0 .. Len(mesh.faces) - 1
    /\ LabelsUsed = 0 .. result.num_segments - 1

\* The clusters of the over-clustering and their faces (0-based).
ClustersFound == {result.labels_initial[i] : i \in DOMAIN result.labels_initial}
ClusterFaces(c) == {i \in DOMAIN result.labels_initial : result.labels_initial[i] = c}

\* The variance of the normals of cluster c (the sum of the variances of the
\* 3 coordinates) is the mean squared distance between 2 of its normals,
\* halved: the sum over the ordered pairs of normals of |a - b|^2, over 2 m^2.
PairVariance(c) ==
  LET fs == ClusterFaces(c)
      nrm(i) == UnitNormal(mesh.faces[i + 1])
      vals == {nrm(i) : i \in fs}
      cnt == [a \in vals |-> Cardinality({i \in fs : nrm(i) = a})]
      term(a, b) == cnt[a] * cnt[b] * Dot(Sub(a, b), Sub(a, b))
      row == [a \in vals |-> SumOver(vals, [b \in vals |-> term(a, b)])]
  IN  <<SumOver(vals, row), 2 * Cardinality(fs) * Cardinality(fs)>>

\* The p-th smallest of the variances var[c], c in CS.
ValueAt(var, CS, p) ==
  var[CHOOSE c \in CS :
        /\ Cardinality({d \in CS : RatLess(var[d], var[c])}) < p
        /\ p <= Cardinality({d \in CS : ~RatLess(var[c], var[d])})]

\* v is below max(0.005, median / 2), the median taken over the clusters CS.
IsUnderThreshold(v, var, CS) ==
  LET n == Cardinality(CS)
      lo == ValueAt(var, CS, (n + 1) \div 2)
      hi == ValueAt(var, CS, (n \div 2) + 1)
  IN  \/ 200 * v[1] < v[2]
      \/ 4 * v[1] * lo[2] * hi[2] < v[2] * (lo[1] * hi[2] + hi[1] * lo[2])

\* The clusters of CS that pass the threshold computed over CS.
Passing(var, CS) == {c \in CS : IsUnderThreshold(var[c], var, CS)}

\* The faces are labelled by the clusters of P in ascending order of
\* variance, up to num_planes of them: the k-th gets label k, the faces of
\* all other clusters get label 0, and num_segments is their number plus 1.
LabelledByRank(var, P) ==
  LET K == IF Cardinality(P) < result.num_planes
           THEN Cardinality(P) ELSE result.num_planes
  IN  /\ result.num_segments = K + 1
      /\ \E kept \in [1 .. K -> P] :
           /\ \A a, b \in 1 .. K : a < b =>
                kept[a] # kept[b] /\ ~RatLess(var[kept[b]], var[kept[a]])
           /\ \A c \in P : (\A a \in 1 .. K : kept[a] # c) =>
                \A a \in 1 .. K : ~RatLess(var[c], var[kept[a]])
           /\ \A i \in DOMAIN result.triangle_labels :
                result.triangle_labels[i] =
                  IF \E a \in 1 .. K : kept[a] = result.labels_initial[i]
                  THEN CHOOSE a \in 1 .. K : kept[a] = result.labels_initial[i]
                  ELSE 0

\* The clustering gave every normal a cluster of its own.
NormalsSeparated ==
  \A i, j \in DOMAIN result.labels_initial :
    result.labels_initial[i] = result.labels_initial[j]
      => UnitNormal(mesh.faces[i + 1]) = UnitNormal(mesh.faces[j + 1])

InvC14 ==
  IsPlanesOk =>
    LET var == [c \in ClustersFound |-> PairVariance(c)]
        large == {c \in ClustersFound : Cardinality(ClusterFaces(c)) >= 10}
    IN  (Passing(var, large) = {} \/ Passing(var, ClustersFound) = {}) =>
          /\ result.success
          /\ result.triangle_labels = result.labels_initial
          /\ result.num_segments =
               (IF result.num_planes * 2 >= 10 THEN result.num_planes * 2 ELSE 10)
          /\ Len(mesh.faces) >= result.num_segments

WitC14 ==
  /\ IsPlanesOk
  /\ result.plane_clusters = <<>>
  /\ result.num_planes = 6
  /\ result.num_segments = 12
  /\ Cardinality(LabelsUsed) >= 3
  /\ NormalsSeparated

\* C15 as claimed: planar segmentation of the flat 2x2 grid with
\* num_planes = 1 succeeds and gives a single segment with all the faces.
CexC15 ==
  [][(mesh.faces = Grid2x2 /\ SegmentByPlanes(1)) =>
       /\ result'.outcome = "ok"
       /\ result'.success
       /\ result'.num_segments = 1
       /\ \A i \in DOMAIN result'.triangle_labels : result'.triangle_labels[i] = 0]_vars

IsCurvature == result.op = "compute_triangle_curvature"

\* The faces at each edge of degree 2.
DegreeTwoFaces ==
  [e \in {x \in MeshEdges(mesh.faces) : RefCount(mesh.faces, x) = 2} |->
     FacesOf(mesh.faces, e)]

\* The faces other than i at the edges of face i among those of nb.
NeighboursVia(i, nb) ==
  UNION {nb[e] : e \in {x \in DOMAIN nb : i \in nb[x]}} \ {i}

\* The faces other than i that share with face i an edge of degree 2.
DegreeTwoNeighbours(i) == NeighboursVia(i, DegreeTwoFaces)

\* The cosine of the angle between the directions u and v, as the pair
\* <<r, s>> with cosine = (r + s * sqrt 3) / 3 and r or s zero: it has the
\* sign of Dot(u, v) and its square is Dot(u, v)^2 / (|u|^2 |v|^2).
Cosine3(u, v) ==
  LET d == Dot(u, v)
      l == Dot(u, u) * Dot(v, v)
  IN  CHOOSE c \in (-3 .. 3) \X (-3 .. 3) :
        /\ \/ c[2] = 0 /\ c[1] * c[1] * l = 9 * d * d
           \/ c[1] = 0 /\ 3 * c[2] * c[2] * l = 9 * d * d
        /\ (d > 0 => c[1] + c[2] > 0)
        /\ (d < 0 => c[1] + c[2] < 0)

\* a + b * sqrt 3 >= 0
NonNegative(a, b) ==
  \/ a >= 0 /\ b >= 0
  \/ a >= 0 /\ b < 0 /\ a * a >= 3 * b * b
  \/ a < 0 /\ b >= 0 /\ 3 * b * b >= a * a

\* C16: the deviation of face i is 1 minus the mean of the dot products of
\* its unit normal with those of the faces that share with it an edge of
\* degree exactly 2; it is 0 without such a neighbour, 0 when all those
\* neighbours have the normal of face i, and it lies in [0, 2].
InvC16 ==
  IsCurvature =>
    LET nb == DegreeTwoFaces
    IN
    \A i \in 0 .. Len(mesh.faces) - 1 :
      LET N == NeighboursVia(i, nb)
          v == result.deviations[i]
          cos == [j \in N |-> Cosine3(TriangleNormal(mesh.faces[i + 1]),
                                      TriangleNormal(mesh.faces[j + 1]))]
      IN  /\ v[3] > 0
          /\ N = {} => (v[1] = 0 /\ v[2] = 0)
          /\ N # {} =>
               /\ 3 * Cardinality(N) * (v[3] - v[1]) =
                    v[3] * SumOver(N, [j \in N |-> cos[j][1]])
               /\ 0 - 3 * Cardinality(N) * v[2] =
                    v[3] * SumOver(N, [j \in N |-> cos[j][2]])
          /\ (N # {} /\ \A j \in N : IsFlat(<<mesh.faces[i + 1], mesh.faces[j + 1]>>))
               => (v[1] = 0 /\ v[2] = 0)
          /\ NonNegative(v[1], v[2])
          /\ NonNegative(2 * v[3] - v[1], 0 - v[2])

WitC16 ==
  /\ IsCurvature
  /\ \E i \in DOMAIN result.deviations :
       /\ Cardinality(DegreeTwoNeighbours(i)) = 3
       /\ ~HasRepeatedId(mesh.faces[i + 1])
       /\ result.deviations[i][1] = 0 /\ result.deviations[i][2] = 0
  /\ \E i \in DOMAIN result.deviations :
       /\ Cardinality(DegreeTwoNeighbours(i)) = 1
       /\ result.deviations[i][1] = 0 /\ result.deviations[i][2] = 0
  /\ \E e \in MeshEdges(mesh.faces) : RefCount(mesh.faces, e) = 1

IsColor == result.op \in {"_distance_to_color", "_heatmap_colors"}

\* C17: both mappers return one RGBA colour per entry, with alpha 255; the
\* entry 0 gets (0,0,255,255), the entry 1 gets (255,0,0,255), an entry
\* below 0 gets the colour of 0 and an entry above 1 the colour of 1.
InvC17 ==
  IsColor =>
    /\ Len(result.colors) = Len(values)
    /\ \A i \in DOMAIN values :
         LET x == values[i]
             c == result.colors[i]
         IN  /\ Len(c) = 4 /\ c[4] = 255
             /\ x[1] <= 0 => c = <<0, 0, 255, 255>>
             /\ x[1] >= x[2] => c = <<255, 0, 0, 255>>

WitC17 ==
  /\ result.op = "_heatmap_colors"
  /\ Len(values) = 2
  /\ values[1][1] < 0
  /\ values[2][1] > values[2][2]
  /\ result.colors = <<<<0, 0, 255, 255>>, <<255, 0, 0, 255>>>>

\* x lies in the sub-range number k (0..3) of the ramp; 1.0 belongs to the
\* last one.
InSubRange(x, k) ==
  /\ k * x[2] <= 4 * x[1]
  /\ IF k = 3 THEN x[1] <= x[2] ELSE 4 * x[1] < (k + 1) * x[2]

\* The channel (1 = R, 2 = G, 3 = B) that changes in sub-range k, and whether
\* it rises.
RampChannel(k) == <<2, 3, 1, 2>>[k + 1]
RampRises(k) == <<TRUE, FALSE, TRUE, FALSE>>[k + 1]

\* The colours at the stops 0, 0.25, 0.5, 0.75, 1.
StopColours ==
  <<<<0, 0, 255, 255>>, <<0, 255, 255, 255>>, <<0, 255, 0, 255>>,
    <<255, 255, 0, 255>>, <<255, 0, 0, 255>>>>

\* C18: within a sub-range the bytes R, G and B are monotonic in the input:
\* one channel rises or falls (G up, B down, R up, G down), the others stay;
\* at the stops the colours are blue, cyan, green, yellow, red, and just
\* below a stop every byte is within 1 of the byte at the stop.
InvC18 ==
  IsColor =>
    /\ \A i, j \in DOMAIN values : \A k \in 0 .. 3 :
         (InSubRange(values[i], k) /\ InSubRange(values[j], k)
            /\ values[i][1] * values[j][2] <= values[j][1] * values[i][2]) =>
           \A ch \in 1 .. 3 :
             IF ch # RampChannel(k) THEN result.colors[i][ch] = result.colors[j][ch]
             ELSE IF RampRises(k) THEN result.colors[i][ch] <= result.colors[j][ch]
             ELSE result.colors[i][ch] >= result.colors[j][ch]
    /\ \A i \in DOMAIN values : \A k \in 0 .. 4 :
         /\ 4 * values[i][1] = k * values[i][2] => result.colors[i] = StopColours[k + 1]
         /\ 4 * 2040 * values[i][1] = (k * 2040 - 4) * values[i][2] =>
              \A ch \in 1 .. 3 :
                /\ result.colors[i][ch] - StopColours[k + 1][ch] <= 1
                /\ StopColours[k + 1][ch] - result.colors[i][ch] <= 1

WitC18 ==
  /\ result.op = "_distance_to_color"
  /\ Len(values) = 2
  /\ InSubRange(values[1], 2) /\ InSubRange(values[2], 2)
  /\ 2 * values[1][1] = values[1][2]
  /\ values[2] = <<1529, 2040>>
  /\ result.colors[1] = <<0, 255, 0, 255>>
  /\ result.colors[2][1] = 254

IsVisualization ==
  /\ result.op \in {"compare_meshes", "generate_quality_visualization"}
  /\ result.outcome = "ok"

VisualizationMesh ==
  IF result.op = "compare_meshes" THEN result.heatmap_mesh ELSE result.colored_mesh

\* One RGBA colour of 4 bytes for each vertex of the mesh vm.
ColouredPerVertex(vm) ==
  /\ DOMAIN vm.vertex_colors = vm.vertices
  /\ \A v \in vm.vertices :
       /\ Len(vm.vertex_colors[v]) = 4
       /\ \A c \in 1 .. 4 : vm.vertex_colors[v][c] \in 0 .. 255

\* The sequence out is the sequence s restricted to the indices in kept.
IsRestriction(out, s, kept) ==
  /\ Len(out) = Cardinality(kept)
  /\ \A i \in kept : out[Cardinality({k \in kept : k <= i})] = s[i]

IsTerminal(id) ==
  /\ id \in DOMAIN tasks
  /\ tasks[id].status \in {"completed", "failed"}

\* The error str(e) of the exception that ends the task id.
IsTaskError(id, e) ==
  \/ e \in HandlerErrors
  \/ e = NoHandlerError(tasks[id].type)

\* What a step makes of the thread w when the handler of its task is
\* missing or raises: the thread stays in its loop, the task is FAILED and
\* gets the error message; a thread leaves the loop only when stopped.
FailureStep(w) ==
  LET before == threads[w]
      after == threads'[w]
      id == before.task_id
  IN  /\ (before.pc = "processing" /\ after # before
            /\ tasks[id].type \notin task_handlers) =>
           /\ after.pc = "failed"
           /\ after.ret = NoHandlerError(tasks[id].type)
           /\ tasks'[id].status = "failed"
      /\ (before.pc = "handler" /\ after.pc \notin {"handler", "completed"}) =>
           /\ after.pc = "failed"
           /\ after.ret \in HandlerErrors
           /\ tasks'[id].status = "failed"
      /\ (before.pc = "failed" /\ after # before) =>
           /\ after.pc = "loop"
           /\ tasks'[id].status = "failed"
           /\ tasks'[id].error = before.ret
           /\ IsTaskError(id, before.ret)
      /\ (after.pc = "stopped" /\ before.pc # "stopped") =>
           /\ before.pc = "loop"
           /\ ~running

\* A FAILED task whose worker has left the except block has its error.
FailedHasError ==
  \A id \in DOMAIN tasks :
    (/\ tasks[id].status = "failed"
     /\ \A w \in DOMAIN threads :
          ~(threads[w].pc = "failed" /\ threads[w].task_id = id)) =>
      /\ IsTaskError(id, tasks[id].error)
      /\ tasks[id].completed_at

\* C20: while the workers are running, every created task whose handler
\* returns or raises eventually reaches status COMPLETED or FAILED; a
\* handler exception or a missing handler does not end the worker thread,
\* and the task is recorded as FAILED with the error message.
InvC20 ==
  /\ \A id \in 1 .. MaxTasks :
       (id \in DOMAIN tasks /\ running) ~> IsTerminal(id)
  /\ [][\A w \in DOMAIN threads : FailureStep(w)]_vars
  /\ []FailedHasError

\* One task failed for its missing handler, another one was completed by
\* its handler, and both workers are back in their loop.
WitC20 ==
  /\ running
  /\ \E i, j \in DOMAIN tasks :
       /\ tasks[i].status = "failed"
       /\ tasks[i].error = NoHandlerError(tasks[i].type)
       /\ tasks[j].status = "completed"
       /\ tasks[j].result \in HandlerResults
  /\ \A w \in DOMAIN threads : threads[w].pc \in {"loop", "get"}
  /\ Len(threads) >= NumWorkers

\* The tasks in status PROCESSING.
Processing == {id \in DOMAIN tasks : tasks[id].status = "processing"}

\* C21: after any sequence of start(), stop() and create_task() calls at
\* most num_workers tasks are in status PROCESSING at the same time.
CexC21 == Cardinality(Processing) <= NumWorkers

\* The tasks whose handler is running, in status PROCESSING.
InHandler ==
  {threads[w].task_id : w \in {x \in DOMAIN threads : threads[x].pc = "handler"}}

\* The file paths the task id reads or writes.
PathsOf(id) == {tasks[id].params.input_file, tasks[id].params.output_file}

\* C22: no two tasks that are in status PROCESSING at the same time read or
\* write the same file path.
CexC22 ==
  \A i, j \in InHandler :
    (i # j /\ tasks[i].status = "processing" /\ tasks[j].status = "processing")
      => PathsOf(i) \cap PathsOf(j) = {}

IsSimplifyMesh == result.op = "simplify_mesh"

\* C23: simplify_mesh, with either back end, returns success false and an
\* error, hands nothing to the decimator and writes nothing when the input
\* file does not exist or neither target_triangles nor reduction_ratio is
\* given; the missing file is reported before the missing parameters.
InvC23 ==
  IsSimplifyMesh =>
    LET no_file == ~result.call.exists
        no_params == /\ result.call.target_triangles = NotGiven
                     /\ result.call.reduction_ratio = NotGiven
    IN  /\ (no_file \/ no_params) =>
             /\ result.outcome = "fail"
             /\ result.success = FALSE
             /\ "error" \in DOMAIN result
             /\ result.decimated = <<>>
             /\ ~result.written
        /\ no_file => result.error = "Le fichier d'entree n'existe pas"
        /\ (no_params /\ ~no_file) =>
             result.error = "Vous devez specifier target_triangles ou reduction_ratio"

\* Both back ends refused a call without file and without parameters.
WitC23 ==
  /\ IsSimplifyMesh
  /\ result.call.backend = "open3d"
  /\ ~result.call.exists
  /\ result.call.target_triangles = NotGiven
  /\ result.call.reduction_ratio = NotGiven
  /\ result.error = "Le fichier d'entree n'existe pas"
  /\ Len(mesh.faces) > 0

IsDecimated ==
  /\ result.op \in {"simplify_mesh", "simplify_mesh_glb"}
  /\ result.decimated # <<>>

\* C26: the target handed to the decimator is at least 4 and at most the
\* original triangle count; it is target_triangles when given and otherwise
\* int(original_triangles * (1 - reduction_ratio)), clamped to that range.
CexC26 ==
  IsDecimated =>
    LET d == result.decimated[1]
        t == result.call.target_triangles
        r == result.call.reduction_ratio
        asked == IF t # NotGiven THEN t[1]
                 ELSE IntOf(d.original_triangles * (r[2] - r[1]), r[2])
    IN  /\ d.target >= 4
        /\ d.target <= d.original_triangles
        /\ (asked >= 4 /\ asked <= d.original_triangles) => d.target = asked

IsSegmentation ==
  /\ result.op \in {"segment_by_sharp_edges", "segment_by_planes"}
  /\ result.outcome = "ok"

\* The corners of faces that are the vertex v, as <<face, corner>>.
CornersAt(v) ==
  {c \in (DOMAIN mesh.faces) \X (1 .. 3) : mesh.faces[c[1]][c[2]] = v}

\* The label of the face of the corner c.
LabelAt(c) == result.triangle_labels[c[1] - 1]

\* The labels with the most votes among the corners: one vote per corner.
TopLabelsOf(corners) ==
  LET at == {LabelAt(c) : c \in corners}
      votes == [x \in at |-> Cardinality({c \in corners : LabelAt(c) = x})]
  IN  {x \in at : \A y \in at : votes[y] <= votes[x]}

TopLabels(v) == TopLabelsOf(CornersAt(v))

\* The label of the lowest-index face among the corners with a label of top.
FirstLabelOf(corners, top) ==
  LET first == SetMin({c[1] : c \in {d \in corners : LabelAt(d) \in top}})
  IN  result.triangle_labels[first - 1]

FirstTopLabel(v) == FirstLabelOf(CornersAt(v), TopLabels(v))

\* C24 as stated: each vertex with an incident face takes a label with the
\* most votes among its incident faces, and of several such labels the one
\* first met, that of the lowest-index incident face among them.
CexC24 ==
  IsSegmentation =>
    \A v \in DOMAIN result.vertex_labels :
      LET corners == CornersAt(v)
          top == TopLabelsOf(corners)
      IN  corners # {} =>
            /\ result.vertex_labels[v] \in top
            /\ result.vertex_labels[v] = FirstLabelOf(corners, top)

\* C24 amended: each vertex with an incident face takes a label with the
\* most votes among its incident faces; of several such labels it takes the
\* first in the iteration order of the set of its labels, which is the
\* smallest of them when all labels at the vertex are below 8.
InvC24 ==
  IsSegmentation =>
    \A v \in DOMAIN result.vertex_labels :
      LET corners == CornersAt(v)
          top == TopLabelsOf(corners)
      IN  corners # {} =>
            /\ result.vertex_labels[v] \in top
            /\ (\A c \in corners : LabelAt(c) < 8) =>
                 result.vertex_labels[v] = SetMin(top)

\* A planar segmentation with a vertex whose top labels tie and whose first
\* incident face does not have the smallest of them, and a vertex with a
\* label of 8 or more among its top labels.
WitC24 ==
  /\ IsSegmentation
  /\ result.op = "segment_by_planes"
  /\ \E v \in DOMAIN result.vertex_labels :
       /\ Cardinality(TopLabels(v)) > 1
       /\ FirstTopLabel(v) # SetMin(TopLabels(v))
       /\ SetMin(TopLabels(v)) < 8
  /\ \E v \in DOMAIN result.vertex_labels :
       /\ Cardinality(TopLabels(v)) > 1
       /\ \E x \in TopLabels(v) : x >= 8

IsComparison == result.op = "compare_meshes" /\ result.outcome = "ok"

\* The value of rank k (from 0) among the distances d: k values or fewer are
\* below it and more than k are not above it.
OrderStatistic(d, k) ==
  CHOOSE x \in {d[v] : v \in DOMAIN d} :
    /\ Cardinality({v \in DOMAIN d : d[v] < x}) <= k
    /\ Cardinality({v \in DOMAIN d : d[v] <= x}) > k

\* 20 times the 95th percentile of d: the ranks around 0.95 * (n - 1),
\* interpolated.
TwentyP95(d) ==
  LET n == Cardinality(DOMAIN d)
      lo == (19 * (n - 1)) \div 20
      hi == IF lo + 1 < n THEN lo + 1 ELSE lo
      below == OrderStatistic(d, lo)
      above == OrderStatistic(d, hi)
  IN  20 * below + (19 * (n - 1) - 20 * lo) * (above - below)

\* C25: the cap of the heatmap of compare_meshes is the 95th percentile of
\* the distances when that is positive and else 1% of the bounding-box
\* diagonal, which is never zero; a vertex at a distance of the cap or more
\* is pure red, a vertex at distance 0 is pure blue.
InvC25 ==
  IsComparison =>
    LET d == result.distances
        p == TwentyP95(d)
        colours == result.heatmap_mesh.vertex_colors
    IN  /\ result.stats.p95 = <<p, 20>>
        /\ result.cap_is_p95 = (p > 0)
        /\ result.stats.bb_diagonal2 >= 1
        /\ \A v \in DOMAIN d :
             /\ d[v] = 0 => colours[v] = <<0, 0, 255, 255>>
             /\ (p > 0 /\ 20 * d[v] >= p) => colours[v] = <<255, 0, 0, 255>>
             /\ (p = 0 /\ d[v] > 0 /\ 10000 * d[v] * d[v] >= result.stats.bb_diagonal2)
                  => colours[v] = <<255, 0, 0, 255>>

\* A comparison capped at a percentile below the largest distance, with a
\* red vertex, a blue vertex and a vertex in between.
WitC25 ==
  /\ IsComparison
  /\ result.cap_is_p95
  /\ result.stats.p95[1] < 20 * result.stats.hausdorff
  /\ \E u, v, w \in DOMAIN result.distances :
       /\ result.heatmap_mesh.vertex_colors[u] = <<255, 0, 0, 255>>
       /\ result.heatmap_mesh.vertex_colors[v] = <<0, 0, 255, 255>>
       /\ result.heatmap_mesh.vertex_colors[w] \notin
            {<<255, 0, 0, 255>>, <<0, 0, 255, 255>>}

IsSanitized == result.op = "sanitize_filename" /\ result.returned.outcome = "ok"

\* The characters C27 allows in a returned name.
SafeChars == {"a", "G", "g", ".", "-", "_"}

\* C27: a name sanitize_filename returns has no path separator, no "..",
\* and only alphanumerics, dots, hyphens and underscores, its extension
\* included.
CexC27 ==
  IsSanitized =>
    LET name == result.returned.value
    IN  /\ \A i \in DOMAIN name : name[i] \in SafeChars
        /\ \A i \in DOMAIN name : name[i] \notin {"/", "\\"}
        /\ \A i \in 1 .. Len(name) - 1 : ~(name[i] = "." /\ name[i + 1] = ".")

\* C28: a reader of a task never sees an inconsistent terminal record: a
\* COMPLETED task has its result, progress 100 and completed_at; a FAILED
\* task has its error and completed_at.
CexC28 ==
  \A id \in DOMAIN tasks :
    /\ tasks[id].status = "completed" =>
         /\ tasks[id].result # None
         /\ tasks[id].progress = 100
         /\ tasks[id].completed_at
    /\ tasks[id].status = "failed" =>
         /\ tasks[id].error # None
         /\ tasks[id].completed_at

\* The threads that took the task id and have not finished with it.
Holders(id) ==
  {w \in DOMAIN threads :
     /\ threads[w].task_id = id
     /\ threads[w].pc \in {"processing", "handler", "completed", "failed"}}

\* The status of a task changes only from PENDING to PROCESSING and from
\* PROCESSING to COMPLETED or FAILED; a new task is PENDING.
StatusStep(id) ==
  /\ id \in DOMAIN tasks =>
       /\ id \in DOMAIN tasks'
       /\ tasks'[id].status # tasks[id].status =>
            <<tasks[id].status, tasks'[id].status>> \in
              {<<"pending", "processing">>, <<"processing", "completed">>,
               <<"processing", "failed">>}
  /\ (id \notin DOMAIN tasks /\ id \in DOMAIN tasks') =>
       tasks'[id].status = "pending"

\* A thread takes a task only by the step that makes the task PROCESSING,
\* calls the handler only for the task it took, and comes back from the
\* handler only by the step that makes the task COMPLETED or FAILED.
HandlerStep(w) ==
  LET before == threads[w]
      after == threads'[w]
  IN  /\ (before.pc # "processing" /\ after.pc = "processing") =>
           /\ tasks[after.task_id].status = "pending"
           /\ tasks'[after.task_id].status = "processing"
      /\ (before.pc # "handler" /\ after.pc = "handler") =>
           /\ before.pc = "processing"
           /\ after.task_id = before.task_id
           /\ tasks[before.task_id].status = "processing"
      /\ (before.pc = "handler" /\ after.pc # "handler") =>
           /\ after.pc \in {"completed", "failed"}
           /\ tasks'[before.task_id].status = after.pc

\* A PENDING task is with no thread, a PROCESSING task is with one thread,
\* which is about to call the handler or in it, and a finished task is with
\* no thread that could call the handler.
OneHolder ==
  \A id \in DOMAIN tasks :
    /\ tasks[id].status = "pending" => Holders(id) = {}
    /\ tasks[id].status = "processing" =>
         /\ Cardinality(Holders(id)) = 1
         /\ \A w \in Holders(id) : threads[w].pc \in {"processing", "handler"}
    /\ tasks[id].status \in {"completed", "failed"} =>
         /\ Cardinality(Holders(id)) <= 1
         /\ \A w \in Holders(id) : threads[w].pc = tasks[id].status

\* C29: with create_task and the workers only, the status of a task goes
\* from PENDING to PROCESSING to COMPLETED or FAILED and no other way, a
\* terminal status never changes, and the handler is called at most once
\* for a task.
InvC29 ==
  /\ [][\A id \in 1 .. MaxTasks : StatusStep(id)]_vars
  /\ [][\A w \in DOMAIN threads : HandlerStep(w)]_vars
  /\ []OneHolder

\* One task completed, one failed by its handler, one in its handler, and
\* the queue empty.
WitC29 ==
  /\ task_queue = <<>>
  /\ \E i, j, k \in DOMAIN tasks :
       /\ tasks[i].status = "completed" /\ tasks[i].completed_at
       /\ tasks[j].status = "failed" /\ tasks[j].error \in HandlerErrors
       /\ tasks[k].status = "processing"
       /\ \E w \in Holders(k) : threads[w].pc = "handler"

\* C30: a task is FAILED exactly when its analysis failed: a task whose
\* handler returned success false with an error is not COMPLETED.
CexC30 ==
  \A id \in DOMAIN tasks :
    tasks[id].status = "completed" =>
      tasks[id].result \notin {r \in HandlerResults : ~r.success}

====
